---- MODULE Spec2Model ----
(***************************************************************************)
(* Timetable core of backend/api.py: the catalog loader (fetch_data), the  *)
(* randomized greedy slot generator (generate_in_memory_timetable), the    *)
(* quota validator (validate_generated_slots), the view projector          *)
(* (get_*_timetable_json) and the regeneration / validation endpoints,     *)
(* running against the store behind the generic /read, /create and        *)
(* /delete routes.                                                         *)
(***************************************************************************)
EXTENDS Integers, Sequences, FiniteSets, TLC

VARIABLES
    db_users,               \* table users: rows in rowid order
    db_classrooms,          \* table classrooms
    db_subjects,            \* table subjects
    db_faculty_subject_map, \* table faculty_subject_map
    db_batches,             \* table batches
    db_timetable_slots,     \* table timetable_slots (the persisted slot set)
    users,                  \* timetable_api.users
    classrooms,             \* timetable_api.classrooms
    subjects,               \* timetable_api.subjects
    faculty_subject_map,    \* timetable_api.faculty_subject_map
    batches,                \* timetable_api.batches
    call,                   \* per request thread: position and locals of the handler
    response,               \* per request thread: the last result returned
    faults,                 \* store operations that have failed so far
    requests,               \* handlers started so far
    updates                 \* catalog rows changed in the store so far

dbvars  == <<db_users, db_classrooms, db_subjects, db_faculty_subject_map, db_batches>>
memvars == <<users, classrooms, subjects, faculty_subject_map, batches>>
vars    == <<db_users, db_classrooms, db_subjects, db_faculty_subject_map, db_batches,
             db_timetable_slots, users, classrooms, subjects, faculty_subject_map,
             batches, call, response, faults, requests, updates>>

(***************************************************************************)
(* Bounds of the model.                                                    *)
(***************************************************************************)
\* days of the fixed calendar that are in use (the source lists 5)
NumDays == 1
\* time slots of the fixed calendar that are in use (the source lists 7)
NumTimeSlots == 2
\* retry budget of one placement task (the source sets 200)
max_attempts == 2
\* store operations that may fail in one behaviour
MaxFaults == 1
\* handlers served in one behaviour
MaxRequests == 2
\* catalog rows changed in the store in one behaviour
MaxUpdates == 1
\* length of the slot sets handed directly to the validator
MaxSlots == 2

\* weekly hours of the subject of the worked scenarios (the scenarios set 4)
ScenarioHours == 2
\* weekly quota of the faculty of the capped scenario (the scenario sets 2)
ScenarioCap == 1

max_faculty_hours == 30
NoLimit == 1000000

Procs == {1, 2}

(***************************************************************************)
(* Python containers.  A dict keeps its keys in insertion order; assigning *)
(* to a key that is present keeps the key's position.                      *)
(***************************************************************************)
EmptyDict == [keys |-> <<>>, val |-> <<>>]

Keys(d) == DOMAIN d.val

DictPut(d, k, v) ==
    [keys |-> IF k \in DOMAIN d.val THEN d.keys ELSE Append(d.keys, k),
     val  |-> [x \in (DOMAIN d.val) \cup {k} |-> IF x = k THEN v ELSE d.val[x]]]

Range(s) == {s[i] : i \in 1..Len(s)}

RECURSIVE SumSeq(_)
SumSeq(s) == IF s = <<>> THEN 0 ELSE Head(s) + SumSeq(Tail(s))

RECURSIVE Flatten(_)
Flatten(ss) == IF ss = <<>> THEN <<>> ELSE Head(ss) \o Flatten(Tail(ss))

\* one copy more than asked for
RepeatOnceMore(x, n) == [i \in 1..(IF n > 0 THEN n + 1 ELSE 1) |-> x]

\* [x] * n
Repeat(x, n) == [i \in 1..(IF n > 0 THEN n ELSE 0) |-> x]

Max(a, b) == IF a >= b THEN a ELSE b

\* all orderings of the elements of a list (random.shuffle)
Shuffles(s) ==
    {[i \in 1..Len(s) |-> s[f[i]]] :
        f \in {g \in [1..Len(s) -> 1..Len(s)] :
                  \A i, j \in 1..Len(s) : i # j => g[i] # g[j]}}

(***************************************************************************)
(* str.lower and the substring test of `'lab' in name.lower()`.  A name   *)
(* is a sequence of characters.                                            *)
(***************************************************************************)
UpperCase == <<"A", "B", "C", "D", "E", "F", "G", "H", "I", "J", "K", "L", "M",
               "N", "O", "P", "Q", "R", "S", "T", "U", "V", "W", "X", "Y", "Z">>
LowerCase == <<"a", "b", "c", "d", "e", "f", "g", "h", "i", "j", "k", "l", "m",
               "n", "o", "p", "q", "r", "s", "t", "u", "v", "w", "x", "y", "z">>

lower_char(c) ==
    IF \E i \in 1..26 : UpperCase[i] = c
    THEN LowerCase[CHOOSE i \in 1..26 : UpperCase[i] = c]
    ELSE c

lower(name) == [i \in 1..Len(name) |-> lower_char(name[i])]

Contains(sub, s) ==
    \E i \in 1..(Len(s) - Len(sub) + 1) : SubSeq(s, i, i + Len(sub) - 1) = sub

\* the keyword test without the lower-casing
subject_type_case_sensitive(subject_obj) ==
    IF Contains(<<"l", "a", "b">>, subject_obj.name) THEN "lab" ELSE "lecture"

subject_type_of(subject_obj) ==
    IF Contains(<<"l", "a", "b">>, lower(subject_obj.name)) THEN "lab" ELSE "lecture"

(***************************************************************************)
(* The fixed calendar.                                                     *)
(***************************************************************************)
AllDays == <<"Monday", "Tuesday", "Wednesday", "Thursday", "Friday">>
AllTimeSlots == <<"9:00-10:00", "10:00-11:00", "11:00-12:00", "12:00-13:00",
                  "13:00-14:00", "14:00-15:00", "15:00-16:00">>
days == SubSeq(AllDays, 1, NumDays)
time_slots == SubSeq(AllTimeSlots, 1, NumTimeSlots)

\* time_slot.replace(':', '')
StripColons(t) ==
    CASE t = "9:00-10:00"  -> "900-1000"
      [] t = "10:00-11:00" -> "1000-1100"
      [] t = "11:00-12:00" -> "1100-1200"
      [] t = "12:00-13:00" -> "1200-1300"
      [] t = "13:00-14:00" -> "1300-1400"
      [] t = "14:00-15:00" -> "1400-1500"
      [] t = "15:00-16:00" -> "1500-1600"
      [] OTHER -> t

SlotId(batch_id, subject_id, day, time_slot) ==
    batch_id \o "_" \o subject_id \o "_" \o day \o "_" \o StripColons(time_slot)

(***************************************************************************)
(* Catalog loader.  Every bulk read is one GET on /read/<table>; it is     *)
(* answered with the rows ("ok"), with a non-200 status ("status"), or the *)
(* request raises ("exc").                                                 *)
(***************************************************************************)
ReadResults == {"ok", "status", "exc"}

\* results of the five reads of one fetch_data call; a read after the one that
\* raised is never sent, and is written "ok"
FetchResults(budget) ==
    {o \in [1..5 -> ReadResults] :
        /\ \A i \in 1..5 : (\E j \in 1..(i - 1) : o[j] = "exc") => o[i] = "ok"
        /\ Cardinality({i \in 1..5 : o[i] # "ok"}) <= budget}

FaultsIn(o) == Cardinality({i \in DOMAIN o : o[i] # "ok"})

RECURSIVE LoadUsers(_, _)
LoadUsers(d, rows) ==
    IF rows = <<>> THEN d
    ELSE LoadUsers(IF Head(rows).role = "faculty"
                   THEN DictPut(d, Head(rows).id, Head(rows)) ELSE d,
                   Tail(rows))

RECURSIVE LoadById(_, _)
LoadById(d, rows) ==
    IF rows = <<>> THEN d
    ELSE LoadById(DictPut(d, Head(rows).id, Head(rows)), Tail(rows))

RECURSIVE LoadMappings(_, _)
LoadMappings(d, rows) ==
    IF rows = <<>> THEN d
    ELSE LET faculty_id == Head(rows).faculty_id
             d1 == IF faculty_id \notin Keys(d) THEN DictPut(d, faculty_id, <<>>) ELSE d
         IN  LoadMappings(DictPut(d1, faculty_id, Append(d1.val[faculty_id], Head(rows))),
                          Tail(rows))

\* the read of table i is sent and answered with the rows
Applied(o, i) == o[i] = "ok" /\ \A j \in 1..(i - 1) : o[j] # "exc"

fetch_data(self, o) ==
    [users               |-> IF Applied(o, 1) THEN LoadUsers(self.users, db_users) ELSE self.users,
     classrooms          |-> IF Applied(o, 2) THEN LoadById(self.classrooms, db_classrooms)
                             ELSE self.classrooms,
     subjects            |-> IF Applied(o, 3) THEN LoadById(self.subjects, db_subjects)
                             ELSE self.subjects,
     faculty_subject_map |-> IF Applied(o, 4)
                             THEN LoadMappings(self.faculty_subject_map, db_faculty_subject_map)
                             ELSE self.faculty_subject_map,
     batches             |-> IF Applied(o, 5) THEN LoadById(self.batches, db_batches)
                             ELSE self.batches,
     ok                  |-> \A i \in 1..5 : o[i] # "exc"]

(***************************************************************************)
(* Catalog queries.                                                        *)
(***************************************************************************)
\* every faculty of the map, whatever the subject of the mapping
get_subject_faculty_any(self, subject_id) == self.faculty_subject_map.keys

get_subject_faculty(self, subject_id) ==
    Flatten([i \in 1..Len(self.faculty_subject_map.keys) |->
        LET faculty_id == self.faculty_subject_map.keys[i]
            hits == SelectSeq(self.faculty_subject_map.val[faculty_id],
                              LAMBDA m : m.subject_id = subject_id)
        IN  [j \in 1..Len(hits) |-> faculty_id]])

\* the quota read under a key no mapping holds, with the default 0
get_faculty_subject_max_hours_missing_key(self, faculty_id, subject_id) == 0

get_faculty_subject_max_hours(self, faculty_id, subject_id) ==
    LET mappings == IF faculty_id \in Keys(self.faculty_subject_map)
                    THEN self.faculty_subject_map.val[faculty_id] ELSE <<>>
        hits == SelectSeq(mappings, LAMBDA m : m.subject_id = subject_id)
    IN  IF hits # <<>> THEN Head(hits).max_hours_per_week ELSE NoLimit

\* the curriculum taken without regard to the department
get_subjects_for_batch_any_department(self, batch_id) == self.subjects.keys

get_subjects_for_batch(self, batch_id) ==
    SelectSeq(self.subjects.keys,
              LAMBDA subj_id : self.subjects.val[subj_id].department
                                  = self.batches.val[batch_id].department)

_is_classroom_available_local(slots, classroom_id, day, time_slot) ==
    ~ \E i \in 1..Len(slots) :
        slots[i].classroom_id = classroom_id /\ slots[i].day = day
            /\ slots[i].time = time_slot

\* the faculty test comparing the slot's classroom_id with the faculty id
_is_faculty_available_wrong_key(slots, faculty_id, day, time_slot) ==
    ~ \E i \in 1..Len(slots) :
        slots[i].classroom_id = faculty_id /\ slots[i].day = day
            /\ slots[i].time = time_slot

_is_faculty_available_local(slots, faculty_id, day, time_slot) ==
    ~ \E i \in 1..Len(slots) :
        slots[i].faculty_id = faculty_id /\ slots[i].day = day
            /\ slots[i].time = time_slot

_is_batch_available_local(slots, batch_id, day, time_slot) ==
    ~ \E i \in 1..Len(slots) :
        slots[i].batch_id = batch_id /\ slots[i].day = day /\ slots[i].time = time_slot

\* the free rooms of any type
_get_available_classrooms_any_type(self, slots, day, time_slot, subject_type) ==
    SelectSeq(self.classrooms.keys,
              LAMBDA classroom_id :
                  _is_classroom_available_local(slots, classroom_id, day, time_slot))

_get_available_classrooms_local(self, slots, day, time_slot, subject_type) ==
    SelectSeq(self.classrooms.keys,
              LAMBDA classroom_id :
                  /\ self.classrooms.val[classroom_id].type = subject_type
                  /\ _is_classroom_available_local(slots, classroom_id, day, time_slot))

(***************************************************************************)
(* Constraint validator.  An error or suggestion string is a record of the *)
(* values formatted into it.                                               *)
(***************************************************************************)
max_weekly_slots == Len(days) * Len(time_slots)

\* the counting loop keyed by the subject alone
batch_subject_hours_any_batch(slots, batch_id, subject_id) ==
    Cardinality({i \in 1..Len(slots) : slots[i].subject_id = subject_id})

\* batch_subject_hours[batch_id][subject_id] after the counting loop
batch_subject_hours(slots, batch_id, subject_id) ==
    Cardinality({i \in 1..Len(slots) :
                    slots[i].batch_id = batch_id /\ slots[i].subject_id = subject_id})

\* the faculty's dict rebuilt at every slot, so that only the faculty's last slot
\* is counted
per_faculty_subject_assigned_last_wins(slots, fid, subject_id) ==
    LET mine == SelectSeq(slots, LAMBDA slot : slot.faculty_id = fid)
    IN  IF mine # <<>> /\ mine[Len(mine)].subject_id = subject_id THEN 1 ELSE 0

\* per_faculty_subject_assigned.get(fid, {}).get(subject_id, 0)
per_faculty_subject_assigned(slots, fid, subject_id) ==
    Cardinality({i \in 1..Len(slots) :
                    slots[i].faculty_id = fid /\ slots[i].subject_id = subject_id})

\* the sum without the floor at 0
remaining_capacity_unfloored(self, slots, subject_id) ==
    SumSeq([i \in 1..Len(self.faculty_subject_map.keys) |->
        LET fid == self.faculty_subject_map.keys[i]
            hits == SelectSeq(self.faculty_subject_map.val[fid],
                              LAMBDA m : m.subject_id = subject_id)
        IN  IF hits = <<>> THEN 0
            ELSE Head(hits).max_hours_per_week
                   - per_faculty_subject_assigned(slots, fid, subject_id)])

\* the first mapping of each faculty for the subject counts, floored at 0
remaining_capacity(self, slots, subject_id) ==
    SumSeq([i \in 1..Len(self.faculty_subject_map.keys) |->
        LET fid == self.faculty_subject_map.keys[i]
            hits == SelectSeq(self.faculty_subject_map.val[fid],
                              LAMBDA m : m.subject_id = subject_id)
        IN  IF hits = <<>> THEN 0
            ELSE Max(0, Head(hits).max_hours_per_week
                          - per_faculty_subject_assigned(slots, fid, subject_id))])

DeficitOf(required, scheduled) == required - scheduled

\* the comparison made on the batch's total of slots, not the subject's
SubjectErrorsBatchTotal(self, slots, batch_id, subject_id) ==
    LET required  == self.subjects.val[subject_id].weekly_hours
        scheduled == Cardinality({i \in 1..Len(slots) : slots[i].batch_id = batch_id})
    IN  IF scheduled # required
        THEN <<[kind |-> "subject_hours", name |-> self.subjects.val[subject_id].name,
                scheduled |-> scheduled, required |-> required]>>
        ELSE <<>>

SubjectErrors(self, slots, batch_id, subject_id) ==
    LET required  == self.subjects.val[subject_id].weekly_hours
        scheduled == batch_subject_hours(slots, batch_id, subject_id)
    IN  IF scheduled # required
        THEN <<[kind |-> "subject_hours", name |-> self.subjects.val[subject_id].name,
                scheduled |-> scheduled, required |-> required]>>
        ELSE <<>>

SubjectSuggestions(self, slots, batch_id, subject_id) ==
    LET required     == self.subjects.val[subject_id].weekly_hours
        scheduled    == batch_subject_hours(slots, batch_id, subject_id)
        name         == self.subjects.val[subject_id].name
        deficit      == DeficitOf(required, scheduled)
        subject_type == subject_type_of(self.subjects.val[subject_id])
        type_rooms   == SelectSeq(self.classrooms.keys,
                            LAMBDA cid : self.classrooms.val[cid].type = subject_type)
    IN  IF scheduled = required THEN <<>>
        ELSE IF scheduled < required
        THEN <<[kind |-> "schedule_additional", hours |-> deficit, name |-> name]>>
             \o (IF remaining_capacity(self, slots, subject_id) < deficit
                 THEN <<[kind |-> "add_faculty_or_increase_max_hours"]>>
                 ELSE <<[kind |-> "reassign_to_faculty_with_capacity"]>>)
             \o (IF type_rooms = <<>>
                 THEN <<[kind |-> "add_classrooms", type |-> subject_type]>>
                 ELSE <<>>)
             \o <<[kind |-> "extend_working_hours"]>>
        ELSE <<[kind |-> "reduce_allocation", hours |-> scheduled - required,
                name |-> name],
               [kind |-> "verify_weekly_hours"],
               [kind |-> "consolidate_entries"]>>

\* a status that does not look at the errors
StatusOfAlwaysOK(errors) == "OK"

\* 'OK' if not errors else 'ERROR'
StatusOf(errors) == IF errors = <<>> THEN "OK" ELSE "ERROR"

ValidateBatch(self, slots, batch_id) ==
    LET curriculum     == get_subjects_for_batch(self, batch_id)
        required_total == SumSeq([i \in 1..Len(curriculum) |->
                                     self.subjects.val[curriculum[i]].weekly_hours])
        over           == required_total > max_weekly_slots
        errors         == Flatten([i \in 1..Len(curriculum) |->
                                     SubjectErrors(self, slots, batch_id, curriculum[i])])
                          \o (IF over
                              THEN <<[kind |-> "required_total_exceeds",
                                      required_total |-> required_total,
                                      max_weekly_slots |-> max_weekly_slots]>>
                              ELSE <<>>)
        suggestions    == Flatten([i \in 1..Len(curriculum) |->
                                     SubjectSuggestions(self, slots, batch_id, curriculum[i])])
                          \o (IF over
                              THEN <<[kind |-> "reduce_weekly_hours"],
                                     [kind |-> "add_time_slots"],
                                     [kind |-> "increase_resource_capacity"]>>
                              ELSE <<>>)
    IN  [status                |-> StatusOf(errors),
         errors                |-> errors,
         suggestions           |-> suggestions,
         scheduled_total_hours |-> Cardinality({i \in 1..Len(slots) : slots[i].batch_id = batch_id}),
         required_total_hours  |-> required_total,
         max_weekly_slots      |-> max_weekly_slots]

\* a comparison that also fires at the quota
ExceedsQuotaOrMeets(actual, max_h) == actual >= max_h

\* `if actual > max_h`
ExceedsQuota(actual, max_h) == actual > max_h

ValidateFaculty(self, slots, faculty_id) ==
    LET hours    == Cardinality({i \in 1..Len(slots) : slots[i].faculty_id = faculty_id})
        mappings == IF faculty_id \in Keys(self.faculty_subject_map)
                    THEN self.faculty_subject_map.val[faculty_id] ELSE <<>>
        actual(m) == per_faculty_subject_assigned(slots, faculty_id, m.subject_id)
        overs    == SelectSeq(mappings,
                        LAMBDA m : ExceedsQuota(actual(m), m.max_hours_per_week))
        errors   == (IF hours > max_faculty_hours
                     THEN <<[kind |-> "assigned_exceeds", hours |-> hours,
                             max_weekly_hours |-> max_faculty_hours]>>
                     ELSE <<>>)
                    \o [i \in 1..Len(overs) |->
                          [kind |-> "subject_exceeds", subject_id |-> overs[i].subject_id,
                           actual |-> actual(overs[i]),
                           max_hours_per_week |-> overs[i].max_hours_per_week]]
        suggestions == (IF hours > max_faculty_hours
                        THEN <<[kind |-> "reassign_classes"], [kind |-> "add_faculty"],
                               [kind |-> "increase_max_weekly_hours"]>>
                        ELSE <<>>)
                       \o Flatten([i \in 1..Len(overs) |->
                             <<[kind |-> "reassign_subject_hours"],
                               [kind |-> "add_qualified_faculty"],
                               [kind |-> "increase_max_hours_per_week"]>>])
    IN  [status           |-> StatusOf(errors),
         errors           |-> errors,
         suggestions      |-> suggestions,
         assigned_hours   |-> hours,
         max_weekly_hours |-> max_faculty_hours]

ValidateClassroom(self, slots, classroom_id) ==
    LET usage  == Cardinality({i \in 1..Len(slots) : slots[i].classroom_id = classroom_id})
        errors == IF usage > max_weekly_slots
                  THEN <<[kind |-> "usage_exceeds", usage |-> usage,
                          max_weekly_slots |-> max_weekly_slots]>>
                  ELSE <<>>
    IN  [status           |-> StatusOf(errors),
         errors           |-> errors,
         suggestions      |-> IF errors = <<>> THEN <<>>
                              ELSE <<[kind |-> "distribute_classes"],
                                     [kind |-> "add_classrooms_of_type"],
                                     [kind |-> "extend_hours"]>>,
         usage_hours      |-> usage,
         max_weekly_slots |-> max_weekly_slots]

validate_generated_slots(self, slots) ==
    [batches    |-> [b \in Keys(self.batches) |-> ValidateBatch(self, slots, b)],
     faculty    |-> [f \in {u \in Keys(self.users) : self.users.val[u].role = "faculty"} |->
                        ValidateFaculty(self, slots, f)],
     classrooms |-> [c \in Keys(self.classrooms) |-> ValidateClassroom(self, slots, c)]]

(***************************************************************************)
(* Request threads.  call[p] holds the position of the handler that thread *)
(* p runs and the handler's locals.                                        *)
(***************************************************************************)
\* the five catalog maps of an instance
CatalogOf(self) ==
    [users               |-> self.users,
     classrooms          |-> self.classrooms,
     subjects            |-> self.subjects,
     faculty_subject_map |-> self.faculty_subject_map,
     batches             |-> self.batches]

\* the shared TimetableAPI instance as the handlers see it
Self ==
    [users               |-> users,
     classrooms          |-> classrooms,
     subjects            |-> subjects,
     faculty_subject_map |-> faculty_subject_map,
     batches             |-> batches]

IdleCall ==
    [pc                    |-> "idle",
     op                    |-> "none",
     arg                   |-> "none",
     fetch_ok              |-> TRUE,   \* what fetch_data returned to the generator
     fetch_results         |-> <<>>,   \* how the reads of that fetch_data ended
     batch_queue           |-> <<>>,   \* batches the outer loop has not reached
     batch_id              |-> "none",
     tasks                 |-> <<>>,   \* rest of subjects_to_schedule, current first
     faculty_options       |-> <<>>,
     attempts              |-> 0,
     skipped               |-> 0,      \* tasks left at `if not faculty_options`
     dropped               |-> 0,      \* tasks whose while loop ended unscheduled
     generated_slots       |-> <<>>,
     faculty_subject_hours |-> <<>>,   \* "faculty::subject" -> hours
     validations           |-> <<>>,
     persisted_at_start    |-> <<>>,   \* the persisted slot set when the handler began
     persisted_at_read     |-> <<>>,   \* the persisted slot set when it was read
     slots_read            |-> "none", \* how the read of the persisted set ended
     in_store              |-> TRUE,   \* the requested id was a row of the store
     existing              |-> <<>>,   \* rest of the slots delete_all iterates
     to_save               |-> <<>>,   \* rest of the slots save_slots_to_db iterates
     deleted               |-> 0,
     saved                 |-> 0,
     delete_failures       |-> 0,
     write_failures        |-> 0]

NoResponse == [op |-> "none", arg |-> "none", kind |-> "none"]

AllIdle == \A p \in Procs : call[p].pc = "idle"

FsKey(faculty_id, subject_id) == faculty_id \o "::" \o subject_id

\* the lookup under a key the dict never holds
HoursGetMissingKey(h, key) == 0

\* faculty_subject_hours.get(key, 0)
HoursGet(h, key) == IF key \in DOMAIN h THEN h[key] ELSE 0

\* an update of the running count that is lost
HoursIncLost(h, key) == h

\* faculty_subject_hours[fs_key] = faculty_subject_hours.get(fs_key, 0) + 1
HoursInc(h, key) ==
    [k \in (DOMAIN h) \cup {key} |-> IF k = key THEN HoursGet(h, key) + 1 ELSE h[k]]

\* the locals at the top of the body of `for subject_id in subjects_to_schedule`;
\* after the last task the outer loop takes its next turn
AtTask(self, c, tasks) ==
    [c EXCEPT !.pc = IF tasks = <<>> THEN "gen_batch" ELSE "gen_task",
              !.tasks = tasks,
              !.attempts = 0,
              !.faculty_options = IF tasks = <<>> THEN <<>>
                                  ELSE get_subject_faculty(self, Head(tasks))]

(***************************************************************************)
(* Slot generator: generate_in_memory_timetable.                           *)
(***************************************************************************)
\* `if not self.fetch_data(): return []`, then the empty accumulators
GenFetch(p) ==
    /\ call[p].pc = "gen_fetch"
    /\ \E o \in FetchResults(MaxFaults - faults) :
        LET f == fetch_data(Self, o) IN
        /\ users' = f.users
        /\ classrooms' = f.classrooms
        /\ subjects' = f.subjects
        /\ faculty_subject_map' = f.faculty_subject_map
        /\ batches' = f.batches
        /\ faults' = faults + FaultsIn(o)
        /\ call' = [call EXCEPT ![p] =
                      [@ EXCEPT !.pc = IF f.ok THEN "gen_batch" ELSE "gen_done",
                                !.fetch_ok = f.ok,
                                !.fetch_results = o,
                                !.skipped = 0,
                                !.dropped = 0,
                                !.generated_slots = <<>>,
                                !.faculty_subject_hours = <<>>,
                                !.batch_queue = IF f.ok THEN f.batches.keys ELSE <<>>]]
    /\ UNCHANGED <<dbvars, db_timetable_slots, response, requests, updates>>

\* one turn of `for batch_id, batch in self.batches.items()` up to the shuffle
GenNextBatch(p) ==
    /\ call[p].pc = "gen_batch"
    /\ IF call[p].batch_queue = <<>>
       THEN call' = [call EXCEPT ![p].pc = "gen_done"]
       ELSE LET batch_id    == Head(call[p].batch_queue)
                subject_ids == get_subjects_for_batch(Self, batch_id)
                flat        == Flatten([i \in 1..Len(subject_ids) |->
                                  Repeat(subject_ids[i],
                                         subjects.val[subject_ids[i]].weekly_hours)])
                c           == [call[p] EXCEPT !.batch_queue = Tail(@),
                                               !.batch_id = batch_id]
            IN  IF subject_ids = <<>>
                THEN call' = [call EXCEPT ![p] = c]
                ELSE \E subjects_to_schedule \in Shuffles(flat) :
                        call' = [call EXCEPT ![p] = AtTask(Self, c, subjects_to_schedule)]
    /\ UNCHANGED <<dbvars, db_timetable_slots, memvars, response, faults, requests, updates>>

\* `if not faculty_options: continue`
SkipTask(p) ==
    /\ call[p].pc = "gen_task"
    /\ call[p].tasks # <<>>
    /\ call[p].faculty_options = <<>>
    /\ call' = [call EXCEPT ![p] =
                  AtTask(Self, [@ EXCEPT !.skipped = @ + 1], Tail(@.tasks))]
    /\ UNCHANGED <<dbvars, db_timetable_slots, memvars, response, faults, requests, updates>>

\* faculty of faculty_options free at the cell and below their quota for the subject
AvailableFaculty(self, c, subject_id, day, time_slot) ==
    SelectSeq(c.faculty_options,
              LAMBDA faculty_id :
                  /\ _is_faculty_available_local(c.generated_slots, faculty_id, day, time_slot)
                  /\ ~ (HoursGet(c.faculty_subject_hours, FsKey(faculty_id, subject_id))
                          >= get_faculty_subject_max_hours(self, faculty_id, subject_id)))

\* a loop condition that never counts the attempts
ExhaustedNever(c) == FALSE

\* `attempts < max_attempts` is false
Exhausted(c) == c.attempts >= max_attempts

\* one turn of `while not scheduled and attempts < max_attempts`
Attempt(p) ==
    /\ call[p].pc = "gen_task"
    /\ call[p].tasks # <<>>
    /\ call[p].faculty_options # <<>>
    /\ ~ Exhausted(call[p])
    /\ \E di \in 1..Len(days), ti \in 1..Len(time_slots) :
        LET c            == call[p]
            day          == days[di]
            time_slot    == time_slots[ti]
            batch_id     == c.batch_id
            subject_id   == Head(c.tasks)
            available_faculty == AvailableFaculty(Self, c, subject_id, day, time_slot)
            subject_type == subject_type_of(subjects.val[subject_id])
            available_classrooms ==
                _get_available_classrooms_local(Self, c.generated_slots, day, time_slot,
                                                subject_type)
        IN  IF \/ ~ _is_batch_available_local(c.generated_slots, batch_id, day, time_slot)
               \/ available_faculty = <<>>
               \/ available_classrooms = <<>>
            THEN call' = [call EXCEPT ![p].attempts = @ + 1]
            ELSE \E fi \in 1..Len(available_faculty), ci \in 1..Len(available_classrooms) :
                    LET faculty_id   == available_faculty[fi]
                        classroom_id == available_classrooms[ci]
                        slot == [id           |-> SlotId(batch_id, subject_id, day, time_slot),
                                 day          |-> day,
                                 time         |-> time_slot,
                                 classroom_id |-> classroom_id,
                                 subject_id   |-> subject_id,
                                 faculty_id   |-> faculty_id,
                                 batch_id     |-> batch_id]
                        c1 == [c EXCEPT !.generated_slots = Append(@, slot),
                                        !.faculty_subject_hours =
                                            HoursInc(@, FsKey(faculty_id, subject_id))]
                    IN  call' = [call EXCEPT ![p] = AtTask(Self, c1, Tail(c.tasks))]
    /\ UNCHANGED <<dbvars, db_timetable_slots, memvars, response, faults, requests, updates>>

\* the while loop ends with scheduled = False: the task is dropped
DropTask(p) ==
    /\ call[p].pc = "gen_task"
    /\ call[p].tasks # <<>>
    /\ call[p].faculty_options # <<>>
    /\ Exhausted(call[p])
    /\ call' = [call EXCEPT ![p] =
                  AtTask(Self, [@ EXCEPT !.dropped = @ + 1], Tail(@.tasks))]
    /\ UNCHANGED <<dbvars, db_timetable_slots, memvars, response, faults, requests, updates>>

\* a direct call of generate_in_memory_timetable returns its list
GenReturn(p) ==
    /\ call[p].pc = "gen_done"
    /\ call[p].op = "generate"
    /\ response' = [response EXCEPT ![p] =
                      [op |-> "generate", arg |-> "none", kind |-> "slots",
                       slots |-> call[p].generated_slots,
                       fetch_ok |-> call[p].fetch_ok,
                       skipped |-> call[p].skipped,
                       dropped |-> call[p].dropped]]
    /\ call' = [call EXCEPT ![p] = IdleCall]
    /\ UNCHANGED <<dbvars, db_timetable_slots, memvars, faults, requests, updates>>

(***************************************************************************)
(* Persisted slot set: fetch_timetable_slots, delete_all_timetable_slots,  *)
(* save_slots_to_db, over GET /read, DELETE /delete and POST /create.      *)
(***************************************************************************)
\* a slot request is answered with success ("ok"), or it is answered with an
\* error status or raises ("failed"): the callers treat the two alike
SlotResults == {"ok", "failed"}

\* a read of the persisted slots that never finds any
fetch_timetable_slots_blind(r) == <<>>

\* a failed read is swallowed and answered with the empty list
fetch_timetable_slots(r) == IF r = "ok" THEN db_timetable_slots ELSE <<>>

\* DELETE FROM timetable_slots WHERE id=?
DeleteById(rows, sid) == SelectSeq(rows, LAMBDA row : row.id # sid)

\* a store without the primary key on id
HasIdNever(rows, sid) == FALSE

\* id TEXT PRIMARY KEY: a row with the id is stored
HasId(rows, sid) == \E i \in 1..Len(rows) : rows[i].id = sid

(***************************************************************************)
(* Regeneration entry point: regenerate_timetable.                         *)
(***************************************************************************)
RegenerateStart(p) ==
    /\ call[p].pc = "idle"
    /\ requests < MaxRequests
    /\ requests' = requests + 1
    /\ call' = [call EXCEPT ![p] =
                  [IdleCall EXCEPT !.pc = "gen_fetch", !.op = "regenerate",
                                   !.persisted_at_start = db_timetable_slots]]
    /\ UNCHANGED <<dbvars, db_timetable_slots, memvars, response, faults, updates>>

\* a regeneration that starts writing while slots wait for their delete
PhaseAfterReadWritesFirst(existing) == "save"

\* regenerate_timetable calls delete_all_timetable_slots, whose loop runs over
\* the slots it read, and save_slots_to_db only after it has returned
PhaseAfterRead(existing) == IF existing = <<>> THEN "save" ELSE "delete"

\* validate_generated_slots, then the read that opens
\* delete_all_timetable_slots
RegenValidate(p) ==
    /\ call[p].pc = "gen_done"
    /\ call[p].op = "regenerate"
    /\ \E r \in SlotResults :
        /\ r # "ok" => faults < MaxFaults
        /\ faults' = faults + (IF r = "ok" THEN 0 ELSE 1)
        /\ LET existing == fetch_timetable_slots(r) IN
           call' = [call EXCEPT ![p] =
                      [@ EXCEPT !.pc = PhaseAfterRead(existing),
                                !.validations =
                                    validate_generated_slots(Self, call[p].generated_slots),
                                !.persisted_at_read = db_timetable_slots,
                                !.slots_read = r,
                                !.existing = existing,
                                !.to_save = call[p].generated_slots]]
    /\ UNCHANGED <<dbvars, db_timetable_slots, memvars, response, requests, updates>>

\* a failed delete that leaves the loop
AfterDeleteAbort(rest, r) == IF r = "ok" THEN rest ELSE <<>>

\* the slots the loop of delete_all_timetable_slots goes on with after a delete
\* request that ended with r: the inner try keeps the failure inside the turn
AfterDelete(rest, r) == rest

\* one turn of `for slot in existing` of delete_all_timetable_slots
DeleteSlot(p) ==
    /\ call[p].pc = "delete"
    /\ call[p].existing # <<>>
    /\ LET sid  == Head(call[p].existing).id
           tail == Tail(call[p].existing)
       IN  IF sid = ""
           THEN /\ call' = [call EXCEPT ![p] =
                              [@ EXCEPT !.existing = tail,
                                        !.pc = IF tail = <<>> THEN "save" ELSE "delete"]]
                /\ UNCHANGED <<db_timetable_slots, faults>>
           ELSE \E r \in SlotResults :
                   /\ r # "ok" => faults < MaxFaults
                   /\ faults' = faults + (IF r = "ok" THEN 0 ELSE 1)
                   /\ db_timetable_slots' = IF r = "ok"
                                            THEN DeleteById(db_timetable_slots, sid)
                                            ELSE db_timetable_slots
                   /\ call' = [call EXCEPT ![p] =
                                 [@ EXCEPT !.existing = AfterDelete(tail, r),
                                           !.pc = IF AfterDelete(tail, r) = <<>>
                                                  THEN "save" ELSE "delete",
                                           !.deleted = @ + (IF r = "ok" THEN 1 ELSE 0),
                                           !.delete_failures =
                                               @ + (IF r = "ok" THEN 0 ELSE 1)]]
    /\ UNCHANGED <<dbvars, memvars, response, requests, updates>>

\* one turn of `for slot in slots` of save_slots_to_db; the insert of an id that
\* is already a row is refused by the primary key
SaveSlot(p) ==
    /\ call[p].pc = "save"
    /\ call[p].to_save # <<>>
    /\ LET slot == Head(call[p].to_save) IN
       \E r \in SlotResults :
          /\ r # "ok" => faults < MaxFaults
          /\ faults' = faults + (IF r = "ok" THEN 0 ELSE 1)
          /\ LET stored == r = "ok" /\ ~ HasId(db_timetable_slots, slot.id) IN
             /\ db_timetable_slots' = IF stored THEN Append(db_timetable_slots, slot)
                                      ELSE db_timetable_slots
             /\ call' = [call EXCEPT ![p] =
                           [@ EXCEPT !.to_save = Tail(@),
                                     !.saved = @ + (IF stored THEN 1 ELSE 0),
                                     !.write_failures = @ + (IF stored THEN 0 ELSE 1)]]
    /\ UNCHANGED <<dbvars, memvars, response, requests, updates>>

\* the JSON result of regenerate_timetable
RegenRespond(p) ==
    /\ call[p].pc = "save"
    /\ call[p].to_save = <<>>
    /\ response' = [response EXCEPT ![p] =
                      [op                 |-> "regenerate",
                       arg                |-> "none",
                       kind               |-> "regenerated",
                       deleted_old_slots  |-> call[p].deleted,
                       saved_new_slots    |-> call[p].saved,
                       validation_summary |-> call[p].validations,
                       slots              |-> call[p].generated_slots,
                       fetch_ok           |-> call[p].fetch_ok,
                       slots_read         |-> call[p].slots_read,
                       delete_failures    |-> call[p].delete_failures,
                       write_failures     |-> call[p].write_failures,
                       persisted_before   |-> call[p].persisted_at_start,
                       persisted_after    |-> db_timetable_slots]]
    /\ call' = [call EXCEPT ![p] = IdleCall]
    /\ UNCHANGED <<dbvars, db_timetable_slots, memvars, faults, requests, updates>>

(***************************************************************************)
(* View projector: get_batch_timetable_json, get_classroom_timetable_json, *)
(* get_faculty_timetable_json, get_all_timetables_json.                    *)
(***************************************************************************)
ReadOps == {"batch", "faculty", "classroom", "all"}

IsFaculty(self, id) == id \in Keys(self.users) /\ self.users.val[id].role = "faculty"

\* the id passes the handler's lookup in the loaded catalog
Found(self, op, arg) ==
    CASE op = "batch"     -> arg \in Keys(self.batches)
      [] op = "classroom" -> arg \in Keys(self.classrooms)
      [] op = "faculty"   -> IsFaculty(self, arg)
      [] OTHER            -> TRUE

\* the field of a slot that names the entity of a view
EntityOf(op, slot) ==
    CASE op = "batch"     -> slot.batch_id
      [] op = "classroom" -> slot.classroom_id
      [] OTHER            -> slot.faculty_id

\* building the slot's cell raises KeyError: a foreign key the view joins is not
\* in the catalog, or the day or time is no key of the grid
CellFails(self, op, slot) ==
    \/ slot.subject_id \notin Keys(self.subjects)
    \/ op # "faculty" /\ slot.faculty_id \notin Keys(self.users)
    \/ op # "classroom" /\ slot.classroom_id \notin Keys(self.classrooms)
    \/ op # "batch" /\ slot.batch_id \notin Keys(self.batches)
    \/ slot.day \notin Range(days)
    \/ slot.time \notin Range(time_slots)

class_info(self, op, slot) ==
    [subject_id     |-> slot.subject_id,
     subject_name   |-> self.subjects.val[slot.subject_id].name,
     faculty_id     |-> slot.faculty_id,
     batch_id       |-> slot.batch_id,
     classroom_id   |-> slot.classroom_id,
     classroom_type |-> IF op = "classroom" THEN "n/a"
                        ELSE self.classrooms.val[slot.classroom_id].type]

\* the weekly grid of one entity
Timetable(self, op, id, timetable_slots) ==
    [day \in Range(days) |-> [time_slot \in Range(time_slots) |->
        LET mine == SelectSeq(timetable_slots,
                              LAMBDA slot : /\ EntityOf(op, slot) = id
                                            /\ slot.day = day
                                            /\ slot.time = time_slot)
        IN  [i \in 1..Len(mine) |-> class_info(self, op, mine[i])]]]

ViewFails(self, op, id, timetable_slots) ==
    \E i \in 1..Len(timetable_slots) :
        /\ EntityOf(op, timetable_slots[i]) = id
        /\ CellFails(self, op, timetable_slots[i])

FacultyKeys(self) == {u \in Keys(self.users) : self.users.val[u].role = "faculty"}

AllFails(self, timetable_slots) ==
    \/ \E b \in Keys(self.batches) : ViewFails(self, "batch", b, timetable_slots)
    \/ \E c \in Keys(self.classrooms) : ViewFails(self, "classroom", c, timetable_slots)
    \/ \E f \in FacultyKeys(self) : ViewFails(self, "faculty", f, timetable_slots)

\* what a read handler returns once it holds its slot list; `source` and `seen`
\* record where the list came from and what the store held
ReadResult(self, op, arg, timetable_slots, source, seen, in_store) ==
    LET validations == validate_generated_slots(self, timetable_slots)
        base == [op |-> op, arg |-> arg, source |-> source, slots |-> timetable_slots,
                 persisted_at_read |-> seen, in_store |-> in_store]
    IN  IF op = "all"
        THEN IF AllFails(self, timetable_slots)
             THEN [kind |-> "unhandled_error"] @@ base
             ELSE [kind |-> "grid",
                   timetable |->
                       [batches    |-> [b \in Keys(self.batches) |->
                                           Timetable(self, "batch", b, timetable_slots)],
                        classrooms |-> [c \in Keys(self.classrooms) |->
                                           Timetable(self, "classroom", c, timetable_slots)],
                        faculty    |-> [f \in FacultyKeys(self) |->
                                           Timetable(self, "faculty", f, timetable_slots)]],
                   validation |-> validations] @@ base
        ELSE IF ViewFails(self, op, arg, timetable_slots)
             THEN [kind |-> "unhandled_error"] @@ base
             ELSE [kind |-> "grid",
                   timetable  |-> Timetable(self, op, arg, timetable_slots),
                   validation |->
                       LET part == CASE op = "batch"     -> validations.batches
                                     [] op = "classroom" -> validations.classrooms
                                     [] OTHER            -> validations.faculty
                       IN  IF arg \in DOMAIN part THEN part[arg] ELSE <<>>] @@ base

\* the id names a row of the store's catalog
InStore(op, arg) ==
    CASE op = "batch"     -> \E i \in 1..Len(db_batches) : db_batches[i].id = arg
      [] op = "classroom" -> \E i \in 1..Len(db_classrooms) : db_classrooms[i].id = arg
      [] op = "faculty"   -> \E i \in 1..Len(db_users) :
                                db_users[i].id = arg /\ db_users[i].role = "faculty"
      [] OTHER            -> TRUE

\* the ids the model asks for
ReadArgs(op) ==
    CASE op = "batch"     -> {"b1", "b9"}
      [] op = "classroom" -> {"r1", "r9"}
      [] op = "faculty"   -> {"f1", "u1"}
      [] OTHER            -> {"none"}

\* a read handler from its fetch_data to the read of the persisted slot set; with
\* persisted slots in hand it validates, projects and returns at once, without
\* them it goes on to generate
Read(p, op, arg) ==
    /\ call[p].pc = "idle"
    /\ requests < MaxRequests
    /\ requests' = requests + 1
    /\ UNCHANGED <<dbvars, db_timetable_slots, updates>>
    /\ \E o \in FetchResults(MaxFaults - faults), r \in SlotResults :
        LET f        == fetch_data(Self, o)
            found    == Found(f, op, arg)
            reached  == f.ok /\ found
            db_slots == fetch_timetable_slots(r)
            in_store == InStore(op, arg)
        IN  /\ users' = f.users
            /\ classrooms' = f.classrooms
            /\ subjects' = f.subjects
            /\ faculty_subject_map' = f.faculty_subject_map
            /\ batches' = f.batches
            /\ ~ reached => r = "ok"
            /\ r # "ok" => faults + FaultsIn(o) < MaxFaults
            /\ faults' = faults + FaultsIn(o) + (IF r = "ok" THEN 0 ELSE 1)
            /\ IF ~ f.ok
               THEN /\ response' = [response EXCEPT ![p] =
                                      [op |-> op, arg |-> arg, kind |-> "fetch_failed",
                                       in_store |-> in_store]]
                    /\ UNCHANGED call
               ELSE IF ~ found
               THEN /\ response' = [response EXCEPT ![p] =
                                      [op |-> op, arg |-> arg, kind |-> "not_found",
                                       in_store |-> in_store]]
                    /\ UNCHANGED call
               ELSE IF db_slots # <<>>
               THEN /\ response' = [response EXCEPT ![p] =
                                      ReadResult(f, op, arg, db_slots, "persisted",
                                                 db_timetable_slots, in_store)]
                    /\ UNCHANGED call
               ELSE /\ call' = [call EXCEPT ![p] =
                                  [IdleCall EXCEPT !.pc = "gen_fetch", !.op = op,
                                                   !.arg = arg,
                                                   !.persisted_at_read = db_timetable_slots,
                                                   !.slots_read = r,
                                                   !.in_store = in_store]]
                    /\ UNCHANGED response

\* the rest of a read handler after generate_in_memory_timetable has returned
ReadFinish(p) ==
    /\ call[p].pc = "gen_done"
    /\ call[p].op \in ReadOps
    /\ response' = [response EXCEPT ![p] =
                      ReadResult(Self, call[p].op, call[p].arg, call[p].generated_slots,
                                 "generated", call[p].persisted_at_read,
                                 call[p].in_store)]
    /\ call' = [call EXCEPT ![p] = IdleCall]
    /\ UNCHANGED <<dbvars, db_timetable_slots, memvars, faults, requests, updates>>

\* a row of timetable_slots as `SELECT *` returns it: the columns in the order
\* of the CREATE TABLE statement
RowOf(slot) ==
    <<slot.id, slot.day, slot.time, slot.classroom_id, slot.subject_id,
      slot.faculty_id, slot.batch_id>>

\* a conversion that reads subject and faculty from each other's column
SlotOfRowSwapped(row) ==
    [id |-> row[1], day |-> row[2], time |-> row[3], classroom_id |-> row[4],
     subject_id |-> row[6], faculty_id |-> row[5], batch_id |-> row[7]]

\* the dict get_timetable_validation builds from a row, by column position
SlotOfRow(row) ==
    [id |-> row[1], day |-> row[2], time |-> row[3], classroom_id |-> row[4],
     subject_id |-> row[5], faculty_id |-> row[6], batch_id |-> row[7]]

\* the slot list get_timetable_validation validates
SelectedSlots(rows) == [i \in 1..Len(rows) |-> SlotOfRow(RowOf(rows[i]))]

(***************************************************************************)
(* Validation-only endpoint: get_timetable_validation.                     *)
(***************************************************************************)
GetTimetableValidation(p) ==
    /\ call[p].pc = "idle"
    /\ requests < MaxRequests
    /\ requests' = requests + 1
    /\ UNCHANGED <<dbvars, db_timetable_slots, updates, call>>
    /\ \E o \in FetchResults(MaxFaults - faults), r \in SlotResults :
        LET f == fetch_data(Self, o) IN
            /\ ~ f.ok => r = "ok"
            /\ r # "ok" => faults + FaultsIn(o) < MaxFaults
            /\ faults' = faults + FaultsIn(o) + (IF r = "ok" THEN 0 ELSE 1)
            /\ users' = f.users
            /\ classrooms' = f.classrooms
            /\ subjects' = f.subjects
            /\ faculty_subject_map' = f.faculty_subject_map
            /\ batches' = f.batches
            /\ LET timetable_slots == SelectedSlots(db_timetable_slots)
                   report == validate_generated_slots(f, timetable_slots)
               IN
               response' = [response EXCEPT ![p] =
                  IF ~ f.ok
                  THEN [op |-> "validation", arg |-> "none", kind |-> "fetch_failed"]
                  ELSE IF r # "ok"
                  THEN [op |-> "validation", arg |-> "none", kind |-> "error"]
                  ELSE [op |-> "validation", arg |-> "none", kind |-> "report",
                        validation_report |-> report,
                        total_slots |-> Len(timetable_slots),
                        slots |-> timetable_slots,
                        catalog |-> CatalogOf(f)]]

(***************************************************************************)
(* Store updates through the generic CRUD routes.                          *)
(***************************************************************************)
\* DELETE /delete/<table>/<id> on a catalog table that has an id column
delete(table, id) ==
    /\ updates < MaxUpdates
    /\ updates' = updates + 1
    /\ \/ /\ table = "users"
          /\ HasId(db_users, id)
          /\ db_users' = DeleteById(db_users, id)
          /\ UNCHANGED <<db_classrooms, db_subjects, db_batches>>
       \/ /\ table = "classrooms"
          /\ HasId(db_classrooms, id)
          /\ db_classrooms' = DeleteById(db_classrooms, id)
          /\ UNCHANGED <<db_users, db_subjects, db_batches>>
       \/ /\ table = "subjects"
          /\ HasId(db_subjects, id)
          /\ db_subjects' = DeleteById(db_subjects, id)
          /\ UNCHANGED <<db_users, db_classrooms, db_batches>>
       \/ /\ table = "batches"
          /\ HasId(db_batches, id)
          /\ db_batches' = DeleteById(db_batches, id)
          /\ UNCHANGED <<db_users, db_classrooms, db_subjects>>
    /\ UNCHANGED <<db_faculty_subject_map, db_timetable_slots, memvars, call, response,
                   faults, requests>>

\* POST /create/timetable_slots with a row written by hand; any text is taken as
\* the id, the empty one included
create_timetable_slot(slot) ==
    /\ updates < MaxUpdates
    /\ updates' = updates + 1
    /\ ~ HasId(db_timetable_slots, slot.id)
    /\ db_timetable_slots' = Append(db_timetable_slots, slot)
    /\ UNCHANGED <<dbvars, memvars, call, response, faults, requests>>

HandWrittenSlots ==
    {[id |-> "", day |-> days[1], time |-> time_slots[1], classroom_id |-> "r1",
      subject_id |-> "s1", faculty_id |-> "f1", batch_id |-> "b1"]}

CatalogTables == {"users", "classrooms", "subjects", "batches"}
CatalogIds == {"f1", "u1", "r1", "s1", "b1"}

(***************************************************************************)
(* Catalogs.                                                               *)
(***************************************************************************)
NameMath     == <<"M", "a", "t", "h">>
NamePhysics  == <<"P", "h", "y", "s", "i", "c", "s">>
NameChemLAB  == <<"C", "h", "e", "m", " ", "L", "A", "B">>
NameSyllabus == <<"S", "y", "l", "l", "a", "b", "u", "s">>

UserRow(id, role) == [id |-> id, role |-> role]
ClassroomRow(id, type) == [id |-> id, type |-> type]
SubjectRow(id, name, weekly_hours, department) ==
    [id |-> id, name |-> name, weekly_hours |-> weekly_hours, department |-> department]
BatchRow(id, department) == [id |-> id, department |-> department]
MappingRow(faculty_id, subject_id, max_hours_per_week) ==
    [faculty_id |-> faculty_id, subject_id |-> subject_id,
     max_hours_per_week |-> max_hours_per_week]

UsersTables == {<<UserRow("f1", "faculty"), UserRow("f2", "faculty"),
                  UserRow("u1", "student")>>}

ClassroomsTables ==
    {<<ClassroomRow("r1", "lecture"), ClassroomRow("r2", "lab")>>,
     <<ClassroomRow("r1", "lecture"), ClassroomRow("r2", "lecture")>>}

SubjectsTables ==
    {<<SubjectRow("s1", NameMath, 2, "CS"), SubjectRow("s2", NameChemLAB, 1, "CS")>>,
     <<SubjectRow("s1", NameMath, 1, "CS"), SubjectRow("s2", NameSyllabus, 1, "CS")>>,
     <<SubjectRow("s1", NameMath, 1, "CS"), SubjectRow("s2", NamePhysics, 1, "CS")>>}

MappingsTables ==
    {<<MappingRow("f1", "s1", 2), MappingRow("f2", "s2", 1)>>,
     <<MappingRow("f1", "s1", 1), MappingRow("f2", "s1", 1)>>}

BatchesTables ==
    {<<BatchRow("b1", "CS"), BatchRow("b2", "CS")>>,
     <<BatchRow("b1", "CS"), BatchRow("b2", "ME")>>}

\* the instance right after construction
FreshInstance ==
    /\ users = EmptyDict
    /\ classrooms = EmptyDict
    /\ subjects = EmptyDict
    /\ faculty_subject_map = EmptyDict
    /\ batches = EmptyDict

\* the instance after one earlier fetch_data whose reads all succeeded
WarmInstance ==
    /\ users = LoadUsers(EmptyDict, db_users)
    /\ classrooms = LoadById(EmptyDict, db_classrooms)
    /\ subjects = LoadById(EmptyDict, db_subjects)
    /\ faculty_subject_map = LoadMappings(EmptyDict, db_faculty_subject_map)
    /\ batches = LoadById(EmptyDict, db_batches)

(***************************************************************************)
(* SpecGen: one call of generate_in_memory_timetable over a family of      *)
(* catalogs, on a fresh instance or on one that has fetched before.        *)
(***************************************************************************)
InitGen ==
    /\ db_users \in UsersTables
    /\ db_classrooms \in ClassroomsTables
    /\ db_subjects \in SubjectsTables
    /\ db_faculty_subject_map \in MappingsTables
    /\ db_batches \in BatchesTables
    /\ db_timetable_slots = <<>>
    /\ (FreshInstance \/ WarmInstance)
    /\ call = [p \in Procs |-> IF p = 1
                               THEN [IdleCall EXCEPT !.pc = "gen_fetch", !.op = "generate"]
                               ELSE IdleCall]
    /\ response = [p \in Procs |-> NoResponse]
    /\ faults = 0
    /\ requests = 1
    /\ updates = 0

NextGen ==
    \/ GenFetch(1)
    \/ GenNextBatch(1)
    \/ SkipTask(1)
    \/ Attempt(1)
    \/ DropTask(1)
    \/ GenReturn(1)

SpecGen == InitGen /\ [][NextGen]_vars

(***************************************************************************)
(* Properties of the generated slot sets (SpecGen).                        *)
(***************************************************************************)
\* every list the generator holds or has returned
GeneratedSlotLists ==
    {call[p].generated_slots : p \in Procs}
        \cup {response[p].slots : p \in {q \in Procs : response[q].kind = "slots"}}

SameCell(a, b) == a.day = b.day /\ a.time = b.time

NoDoubleBooking(slots) ==
    \A i, j \in 1..Len(slots) :
        (i # j /\ SameCell(slots[i], slots[j]))
            => /\ slots[i].classroom_id # slots[j].classroom_id
               /\ slots[i].faculty_id # slots[j].faculty_id
               /\ slots[i].batch_id # slots[j].batch_id

\* C1: in every slot list of the generator, at every point of the run and in the
\* list returned, no two distinct slots share a (day, time) cell together with the
\* classroom, or with the faculty member, or with the batch.
C1_NoDoubleBooking == \A slots \in GeneratedSlotLists : NoDoubleBooking(slots)

\* a returned list in which two batches sit in the same cell, in different rooms
\* with different faculty
C1_Witness ==
    \E p \in Procs :
        /\ response[p].kind = "slots"
        /\ \E i, j \in 1..Len(response[p].slots) :
              /\ i # j
              /\ SameCell(response[p].slots[i], response[p].slots[j])

Qualified(faculty_id, subject_id) ==
    /\ faculty_id \in Keys(faculty_subject_map)
    /\ \E k \in 1..Len(faculty_subject_map.val[faculty_id]) :
          faculty_subject_map.val[faculty_id][k].subject_id = subject_id

\* C2: the faculty member of every generated slot has a row in faculty_subject_map
\* for the subject of the slot.
C2_FacultyQualified ==
    \A slots \in GeneratedSlotLists :
        \A i \in 1..Len(slots) : Qualified(slots[i].faculty_id, slots[i].subject_id)

\* a returned slot whose subject some faculty member of the map may not teach
C2_Witness ==
    \E p \in Procs :
        /\ response[p].kind = "slots"
        /\ \E i \in 1..Len(response[p].slots) :
              \E f \in Keys(faculty_subject_map) :
                  ~ Qualified(f, response[p].slots[i].subject_id)

\* the names of the catalogs that hold the keyword in some spelling
LabNames == {NameChemLAB, NameSyllabus}

RequiredKind(name) == IF name \in LabNames THEN "lab" ELSE "lecture"

\* C3: the classroom of every generated slot has the type the subject of the slot
\* requires: lab when the subject's name holds "lab" in any letter case, lecture
\* otherwise.
C3_RoomKindMatches ==
    \A slots \in GeneratedSlotLists :
        \A i \in 1..Len(slots) :
            /\ slots[i].classroom_id \in Keys(classrooms)
            /\ slots[i].subject_id \in Keys(subjects)
            /\ classrooms.val[slots[i].classroom_id].type
                  = RequiredKind(subjects.val[slots[i].subject_id].name)

\* a returned list with a lab subject, spelled in capitals, placed in a lab while
\* a lecture room exists
C3_Witness ==
    \E p \in Procs :
        /\ response[p].kind = "slots"
        /\ \E i \in 1..Len(response[p].slots) :
              /\ subjects.val[response[p].slots[i].subject_id].name = NameChemLAB
              /\ classrooms.val[response[p].slots[i].classroom_id].type = "lab"
              /\ \E c \in Keys(classrooms) : classrooms.val[c].type = "lecture"

(***************************************************************************)
(* Spec: the endpoints served one request at a time against a store whose  *)
(* catalog rows may be deleted between requests.                           *)
(***************************************************************************)
Init ==
    /\ db_users = <<UserRow("f1", "faculty"), UserRow("u1", "student")>>
    /\ db_classrooms = <<ClassroomRow("r1", "lecture")>>
    /\ db_subjects = <<SubjectRow("s1", NameMath, 2, "CS")>>
    /\ db_faculty_subject_map = <<MappingRow("f1", "s1", 2)>>
    /\ db_batches = <<BatchRow("b1", "CS")>>
    /\ db_timetable_slots = <<>>
    /\ FreshInstance
    /\ call = [p \in Procs |-> IdleCall]
    /\ response = [p \in Procs |-> NoResponse]
    /\ faults = 0
    /\ requests = 0
    /\ updates = 0

Next ==
    \/ AllIdle /\ RegenerateStart(1)
    \/ AllIdle /\ \E op \in ReadOps : \E arg \in ReadArgs(op) : Read(1, op, arg)
    \/ AllIdle /\ GetTimetableValidation(1)
    \/ AllIdle /\ \E table \in CatalogTables, id \in CatalogIds : delete(table, id)
    \/ AllIdle /\ \E slot \in HandWrittenSlots : create_timetable_slot(slot)
    \/ GenFetch(1)
    \/ GenNextBatch(1)
    \/ SkipTask(1)
    \/ Attempt(1)
    \/ DropTask(1)
    \/ RegenValidate(1)
    \/ DeleteSlot(1)
    \/ SaveSlot(1)
    \/ RegenRespond(1)
    \/ ReadFinish(1)

Spec == Init /\ [][Next]_vars

(***************************************************************************)
(* Properties of the endpoints (Spec).                                     *)
(***************************************************************************)
\* C4: a regeneration whose catalog fetch failed answers with the fetch failure,
\* has deleted no persisted slot and written none, and leaves the persisted slot
\* set as it was.
C4_FetchFailureAborts ==
    \A p \in Procs :
        (response[p].op = "regenerate" /\ ~ response[p].fetch_ok)
            => /\ response[p].kind = "fetch_failed"
               /\ response[p].deleted_old_slots = 0
               /\ response[p].saved_new_slots = 0
               /\ response[p].persisted_after = response[p].persisted_before

\* C5: fetch_data returns True exactly when each of its five reads was answered
\* with the rows; a read that is answered with an error status or that raises
\* makes it return False.
C5_FetchReportsFailure ==
    \A p \in Procs :
        call[p].fetch_results # <<>>
            => (call[p].fetch_ok <=> \A i \in 1..5 : call[p].fetch_results[i] = "ok")

\* the catalog a fresh instance loads from the store
StoreCatalog ==
    [users               |-> LoadUsers(EmptyDict, db_users).val,
     classrooms          |-> LoadById(EmptyDict, db_classrooms).val,
     subjects            |-> LoadById(EmptyDict, db_subjects).val,
     faculty_subject_map |-> LoadMappings(EmptyDict, db_faculty_subject_map).val,
     batches             |-> LoadById(EmptyDict, db_batches).val]

LoadedCatalog ==
    [users               |-> users.val,
     classrooms          |-> classrooms.val,
     subjects            |-> subjects.val,
     faculty_subject_map |-> faculty_subject_map.val,
     batches             |-> batches.val]

\* C6: while a cycle runs on a catalog that its fetch_data read in full, the
\* in-memory catalog is the store's content: no entity that has left the store,
\* and every qualification row of the store exactly once.
C6_CatalogIsStoreContent ==
    \A p \in Procs :
        (/\ call[p].pc \in {"gen_batch", "gen_task", "gen_done"}
         /\ \A i \in 1..5 : call[p].fetch_results[i] = "ok")
            => LoadedCatalog = StoreCatalog

\* C7: after a regeneration none of whose slot writes failed, the store
\* holds as many slots as the generator returned.
C7_CountAfterWrites ==
    \A p \in Procs :
        (response[p].op = "regenerate" /\ response[p].write_failures = 0)
            => Len(response[p].persisted_after) = Len(response[p].slots)

\* C8: a read served while the store holds persisted slots builds its grid and
\* its validation report from exactly those slots, never from generated ones.
C8_PersistedPreferred ==
    \A p \in Procs :
        (/\ response[p].op \in ReadOps
         /\ response[p].kind \in {"grid", "unhandled_error"}
         /\ response[p].persisted_at_read # <<>>)
            => /\ response[p].source = "persisted"
               /\ response[p].slots = response[p].persisted_at_read

\* C9: a per-entity read for an id that is no row of the store's catalog, served
\* after catalog reads that did not raise, answers not-found.
C9_AbsentIdNotFound ==
    \A p \in Procs :
        (/\ response[p].op \in {"batch", "faculty", "classroom"}
         /\ response[p].kind # "fetch_failed"
         /\ ~ response[p].in_store)
            => response[p].kind = "not_found"

(***************************************************************************)
(* SpecVal: the validation-only endpoint over a family of catalogs and of  *)
(* persisted slot sets written by hand.                                    *)
(***************************************************************************)
ValSubjectsTables ==
    {<<SubjectRow("s1", NameMath, h, "CS"), SubjectRow("s2", NameChemLAB, 1, "CS")>> :
        h \in {1, 2, 3}}

ValClassroomsTables == {<<ClassroomRow("r1", "lecture")>>}

\* the slots a hand-written persisted set is made of; the validator reads
\* neither the day nor the time of a slot
ValSlotFields ==
    [day : {Head(days)}, time : {Head(time_slots)}, classroom_id : {"r1"},
     subject_id : {"s1", "s2"}, faculty_id : {"f1", "f2"}, batch_id : {"b1", "b2"}]

WithIds(fields) ==
    [i \in 1..Len(fields) |-> [id |-> "x" \o ToString(i)] @@ fields[i]]

ValSlotSets ==
    UNION {{WithIds(fields) : fields \in [1..n -> ValSlotFields]} : n \in 0..MaxSlots}

InitVal ==
    /\ db_users \in UsersTables
    /\ db_classrooms \in ValClassroomsTables
    /\ db_subjects \in ValSubjectsTables
    /\ db_faculty_subject_map \in MappingsTables
    /\ db_batches \in BatchesTables
    /\ db_timetable_slots \in ValSlotSets
    /\ (FreshInstance \/ WarmInstance)
    /\ call = [p \in Procs |-> IdleCall]
    /\ response = [p \in Procs |-> NoResponse]
    /\ faults = MaxFaults
    /\ requests = MaxRequests - 1
    /\ updates = MaxUpdates

NextVal == GetTimetableValidation(1)

SpecVal == InitVal /\ [][NextVal]_vars

\* the slots of the list that belong to the batch and the subject
SlotsFor(slots, batch_id, subject_id) ==
    SelectSeq(slots, LAMBDA slot : slot.batch_id = batch_id /\ slot.subject_id = subject_id)

InCurriculum(batch_id, subject_id) ==
    subjects.val[subject_id].department = batches.val[batch_id].department

\* C10: in every report, for every batch and every subject of its curriculum
\* that requires R weekly hours and has R-k slots (k > 0) in the validated set,
\* the batch's entry holds an error for the subject that reads R-k of R, the
\* suggestion to schedule k more hours, and thus a non-empty suggestion list.
C10_DeficitReported ==
    \A p \in Procs :
        response[p].kind = "report" =>
            \A b \in Keys(batches), s \in Keys(subjects) :
                LET R == subjects.val[s].weekly_hours
                    k == R - Len(SlotsFor(response[p].slots, b, s))
                    entry == response[p].validation_report.batches[b]
                IN  (InCurriculum(b, s) /\ k > 0) =>
                        /\ \E i \in 1..Len(entry.errors) :
                              /\ entry.errors[i].kind = "subject_hours"
                              /\ entry.errors[i].name = subjects.val[s].name
                              /\ entry.errors[i].required = R
                              /\ entry.errors[i].required - entry.errors[i].scheduled = k
                        /\ \E i \in 1..Len(entry.suggestions) :
                              /\ entry.suggestions[i].kind = "schedule_additional"
                              /\ entry.suggestions[i].name = subjects.val[s].name
                              /\ entry.suggestions[i].hours = k
                        /\ entry.suggestions # <<>>
                        /\ entry.status = "ERROR"

\* a report on a set that holds some, but not all, of the slots a subject
\* requires for a batch, while another batch holds slots of the same subject
C10_Witness ==
    \E p \in Procs :
        /\ response[p].kind = "report"
        /\ \E b \in Keys(batches), s \in Keys(subjects) :
              /\ InCurriculum(b, s)
              /\ Len(SlotsFor(response[p].slots, b, s)) >= 1
              /\ Len(SlotsFor(response[p].slots, b, s)) < subjects.val[s].weekly_hours
              /\ \E b2 \in Keys(batches) :
                    b2 # b /\ Len(SlotsFor(response[p].slots, b2, s)) >= 1


\* the suggestions of a list that name a subject
NamedSuggestions == {"schedule_additional", "reduce_allocation"}

\* the subjects of the batch's curriculum whose slot count in the list is not the
\* required one
OffTarget(slots, b) ==
    {s \in Keys(subjects) :
        InCurriculum(b, s) /\ Len(SlotsFor(slots, b, s)) # subjects.val[s].weekly_hours}

\* C11: in every report, for every batch and every subject of its curriculum
\* that requires R weekly hours and has exactly R slots in the validated set, the
\* batch's entry holds no error and no suggestion that names the subject; the
\* entry holds one hours error per subject that is off its requirement, and when
\* no subject is and the total fits the week, the entry is OK with no suggestion.
C11_ExactHoursNoError ==
    \A p \in Procs :
        response[p].kind = "report" =>
            \A b \in Keys(batches) :
                LET entry == response[p].validation_report.batches[b]
                    off   == OffTarget(response[p].slots, b)
                IN  /\ \A s \in Keys(subjects) :
                          (InCurriculum(b, s) /\ s \notin off) =>
                              /\ \A i \in 1..Len(entry.errors) :
                                    entry.errors[i].kind = "subject_hours"
                                        => entry.errors[i].name # subjects.val[s].name
                              /\ \A i \in 1..Len(entry.suggestions) :
                                    entry.suggestions[i].kind \in NamedSuggestions
                                        => entry.suggestions[i].name # subjects.val[s].name
                    /\ Cardinality({i \in 1..Len(entry.errors) :
                                       entry.errors[i].kind = "subject_hours"})
                          = Cardinality(off)
                    /\ (off = {} /\ entry.required_total_hours <= entry.max_weekly_slots)
                          => /\ entry.errors = <<>>
                             /\ entry.suggestions = <<>>
                             /\ entry.status = "OK"

\* a report on a set in which one subject of a batch has all its slots while
\* another subject of the same batch is short
C11_Witness ==
    \E p \in Procs :
        /\ response[p].kind = "report"
        /\ \E b \in Keys(batches), s, s2 \in Keys(subjects) :
              /\ InCurriculum(b, s) /\ InCurriculum(b, s2)
              /\ Len(SlotsFor(response[p].slots, b, s)) = subjects.val[s].weekly_hours
              /\ Len(SlotsFor(response[p].slots, b, s)) >= 1
              /\ s2 \in OffTarget(response[p].slots, b)
              /\ response[p].validation_report.batches[b].suggestions # <<>>


ScenUsers == <<UserRow("f1", "faculty")>>
ScenBatches == <<BatchRow("b1", "CS")>>
ScenSubjects == <<SubjectRow("s1", NameMath, ScenarioHours, "CS")>>

\* a quota of twice the hours and a room of the kind the subject requires
ScenAmple ==
    [classrooms |-> <<ClassroomRow("r1", "lecture")>>,
     subjects   |-> ScenSubjects,
     mappings   |-> <<MappingRow("f1", "s1", 2 * ScenarioHours)>>]

\* no room of the kind the subject requires
ScenNoRoom ==
    [classrooms |-> <<ClassroomRow("r1", "lab")>>,
     subjects   |-> ScenSubjects,
     mappings   |-> <<MappingRow("f1", "s1", 2 * ScenarioHours)>>]

\* the only qualified faculty has a quota below the hours
ScenCapped ==
    [classrooms |-> <<ClassroomRow("r1", "lecture")>>,
     subjects   |-> ScenSubjects,
     mappings   |-> <<MappingRow("f1", "s1", ScenarioCap)>>]

\* a second subject nobody is qualified for
ScenNoFaculty ==
    [classrooms |-> <<ClassroomRow("r1", "lecture")>>,
     subjects   |-> ScenSubjects \o <<SubjectRow("s2", NamePhysics, 1, "CS")>>,
     mappings   |-> <<MappingRow("f1", "s1", 2 * ScenarioHours)>>]

Scenarios == {ScenAmple, ScenNoRoom, ScenCapped, ScenNoFaculty}

\* the store holds the catalog of the scenario
InScenario(sc) ==
    /\ db_classrooms = sc.classrooms
    /\ db_subjects = sc.subjects
    /\ db_faculty_subject_map = sc.mappings

InitScen ==
    /\ db_users = ScenUsers
    /\ db_batches = ScenBatches
    /\ \E sc \in Scenarios : InScenario(sc)
    /\ db_timetable_slots = <<>>
    /\ (FreshInstance \/ WarmInstance)
    /\ call = [p \in Procs |-> IF p = 1
                               THEN [IdleCall EXCEPT !.pc = "gen_fetch", !.op = "generate"]
                               ELSE IdleCall]
    /\ response = [p \in Procs |-> NoResponse]
    /\ faults = MaxFaults
    /\ requests = 1
    /\ updates = 0

NextScen ==
    \/ GenFetch(1)
    \/ GenNextBatch(1)
    \/ SkipTask(1)
    \/ Attempt(1)
    \/ DropTask(1)
    \/ GenReturn(1)

SpecScen == InitScen /\ [][NextScen]_vars


(***************************************************************************)
(* Properties of the worked scenarios (SpecScen).                          *)
(***************************************************************************)
\* the generator has returned its list in the scenario
Returned(sc) == InScenario(sc) /\ response[1].kind = "slots"

\* the slots of the list lie on pairwise distinct (day, time) cells
DistinctCells(slots) ==
    \A i, j \in 1..Len(slots) : i # j => ~ SameCell(slots[i], slots[j])

\* the batch's entry of the validator's report on the returned list
BatchReport(b) == validate_generated_slots(Self, response[1].slots).batches[b]

\* C13: in the ample scenario every run returns exactly ScenarioHours slots on
\* distinct cells, and the validator reports the batch OK.
C13_AmpleAllPlaced ==
    Returned(ScenAmple) =>
        /\ Len(response[1].slots) = ScenarioHours
        /\ DistinctCells(response[1].slots)
        /\ BatchReport("b1").status = "OK"

\* C13 as amended: in the ample scenario an attempt fails only by drawing a cell
\* the batch already occupies; every run returns one slot for each task that did
\* not use up its attempts, on distinct cells, and the validator reports the
\* batch OK exactly when no task did.
C13_AmplePlacedUnlessDropped ==
    /\ (InScenario(ScenAmple) /\ call[1].pc = "gen_task") =>
          \A di \in 1..Len(days), ti \in 1..Len(time_slots) :
              _is_batch_available_local(call[1].generated_slots, "b1",
                                        days[di], time_slots[ti])
                  => /\ AvailableFaculty(Self, call[1], "s1", days[di], time_slots[ti])
                            # <<>>
                     /\ _get_available_classrooms_local(Self, call[1].generated_slots,
                            days[di], time_slots[ti], "lecture") # <<>>
    /\ Returned(ScenAmple) =>
          /\ response[1].skipped = 0
          /\ Len(response[1].slots) = ScenarioHours - response[1].dropped
          /\ DistinctCells(response[1].slots)
          /\ (BatchReport("b1").status = "OK" <=> response[1].dropped = 0)

\* a run of the ample scenario that placed every hour
C13_Witness ==
    /\ Returned(ScenAmple)
    /\ response[1].dropped = 0
    /\ Len(response[1].slots) = ScenarioHours
    /\ BatchReport("b1").status = "OK"


\* the list holds an element of the kind
HasKind(list, kind) == \E i \in 1..Len(list) : list[i].kind = kind

\* C14: in the scenario without a room of the required kind every run returns no
\* slot for the subject, and the validator reports for the batch the error 0 of
\* ScenarioHours, the suggestion to schedule ScenarioHours more hours and the
\* suggestion to add classrooms of the required kind.
C14_NoRoomNothingPlaced ==
    Returned(ScenNoRoom) =>
        /\ response[1].slots = <<>>
        /\ LET entry == BatchReport("b1") IN
              /\ entry.status = "ERROR"
              /\ \E i \in 1..Len(entry.errors) :
                    /\ entry.errors[i].kind = "subject_hours"
                    /\ entry.errors[i].name = NameMath
                    /\ entry.errors[i].scheduled = 0
                    /\ entry.errors[i].required = ScenarioHours
              /\ \E i \in 1..Len(entry.suggestions) :
                    /\ entry.suggestions[i].kind = "schedule_additional"
                    /\ entry.suggestions[i].hours = ScenarioHours
              /\ \E i \in 1..Len(entry.suggestions) :
                    /\ entry.suggestions[i].kind = "add_classrooms"
                    /\ entry.suggestions[i].type = "lecture"

\* a run of that scenario in which every task used up its attempts
C14_Witness ==
    /\ Returned(ScenNoRoom)
    /\ response[1].dropped = ScenarioHours
    /\ HasKind(BatchReport("b1").suggestions, "add_classrooms")


\* C15: in the capped scenario every run returns at most ScenarioCap slots of the
\* faculty for the subject, and the validator reports for the batch a deficit of
\* at least ScenarioHours - ScenarioCap, with the suggestion to add qualified
\* faculty or raise the quota and without the suggestion to reassign.
C15_CappedFaculty ==
    Returned(ScenCapped) =>
        /\ per_faculty_subject_assigned(response[1].slots, "f1", "s1") <= ScenarioCap
        /\ LET entry == BatchReport("b1") IN
              /\ \E i \in 1..Len(entry.errors) :
                    /\ entry.errors[i].kind = "subject_hours"
                    /\ entry.errors[i].required - entry.errors[i].scheduled
                          >= ScenarioHours - ScenarioCap
              /\ \E i \in 1..Len(entry.suggestions) :
                    /\ entry.suggestions[i].kind = "schedule_additional"
                    /\ entry.suggestions[i].hours >= ScenarioHours - ScenarioCap
              /\ HasKind(entry.suggestions, "add_faculty_or_increase_max_hours")
              /\ ~ HasKind(entry.suggestions, "reassign_to_faculty_with_capacity")

\* a run of the capped scenario that used the whole quota
C15_Witness ==
    /\ Returned(ScenCapped)
    /\ Len(response[1].slots) = ScenarioCap
    /\ response[1].dropped = ScenarioHours - ScenarioCap


\* SpecScenFair: the call keeps running until it returns
SpecScenFair == SpecScen /\ WF_vars(NextScen)

\* the placement tasks of the call: one per weekly hour of every subject
TotalTasks == SumSeq([i \in 1..Len(db_subjects) |-> db_subjects[i].weekly_hours])

\* no task is past its attempts, and a returned list holds one slot for every
\* task that was neither skipped for want of a qualified faculty nor dropped
BestEffort ==
    /\ call[1].attempts <= max_attempts
    /\ response[1].kind = "slots" =>
          /\ response[1].fetch_ok
          /\ Len(response[1].slots)
                = TotalTasks - response[1].skipped - response[1].dropped

\* C16: every call of the generator returns; no task makes more than
\* max_attempts attempts, and a task that used them up or has no qualified
\* faculty only leaves its hour out of the returned list.
C16_TerminatesBestEffort == []BestEffort /\ <>(response[1].kind = "slots")

\* a returned list that holds a slot although one task was skipped and another
\* dropped
C16_Witness ==
    /\ response[1].kind = "slots"
    /\ response[1].skipped >= 1
    /\ response[1].dropped >= 1
    /\ response[1].slots # <<>>


(***************************************************************************)
(* SpecConc: two request threads of the server run read handlers at the    *)
(* same time on the one TimetableAPI instance.                             *)
(***************************************************************************)
InitConc ==
    /\ db_users = <<UserRow("f1", "faculty")>>
    /\ db_classrooms = <<ClassroomRow("r1", "lecture")>>
    /\ db_subjects = <<SubjectRow("s1", NameMath, 2, "CS"),
                       SubjectRow("s2", NamePhysics, 1, "CS")>>
    /\ db_faculty_subject_map = <<MappingRow("f1", "s1", 2)>>
    /\ db_batches = <<BatchRow("b1", "CS")>>
    /\ db_timetable_slots = <<>>
    /\ FreshInstance
    /\ call = [p \in Procs |-> IdleCall]
    /\ response = [p \in Procs |-> NoResponse]
    /\ faults = MaxFaults
    /\ requests = 0
    /\ updates = MaxUpdates

NextConc ==
    \E p \in Procs :
        \/ Read(p, "batch", "b1")
        \/ GenFetch(p)
        \/ GenNextBatch(p)
        \/ SkipTask(p)
        \/ Attempt(p)
        \/ DropTask(p)
        \/ ReadFinish(p)

SpecConc == InitConc /\ [][NextConc]_vars

\* the thread is inside generate_in_memory_timetable, past its own fetch_data
InFlight(p) == call[p].pc \in {"gen_batch", "gen_task", "gen_done"}

\* C17: a step that is not a step of an in-flight invocation leaves the catalog
\* maps that invocation reads as they are.
C17_PrivateCatalog ==
    [][\A p \in Procs :
          (InFlight(p) /\ call'[p] = call[p] /\ response'[p] = response[p])
              => UNCHANGED memvars]_vars


(***************************************************************************)
(* SpecView: one read handler served from a persisted slot written by      *)
(* hand, whose foreign keys, day and time are any text.                    *)
(***************************************************************************)
ViewSlots ==
    [id : {"x1"}, day : {Head(days), "Sunday"}, time : {Head(time_slots), "8:00-9:00"},
     classroom_id : {"r1", "r9"}, subject_id : {"s1", "s9"},
     faculty_id : {"f1", "f9"}, batch_id : {"b1", "b9"}]

InitView ==
    /\ db_users = <<UserRow("f1", "faculty"), UserRow("u1", "student")>>
    /\ db_classrooms = <<ClassroomRow("r1", "lecture")>>
    /\ db_subjects = <<SubjectRow("s1", NameMath, 2, "CS")>>
    /\ db_faculty_subject_map = <<MappingRow("f1", "s1", 2)>>
    /\ db_batches = <<BatchRow("b1", "CS")>>
    /\ \E slot \in ViewSlots : db_timetable_slots = <<slot>>
    /\ FreshInstance
    /\ call = [p \in Procs |-> IdleCall]
    /\ response = [p \in Procs |-> NoResponse]
    /\ faults = MaxFaults
    /\ requests = MaxRequests - 1
    /\ updates = MaxUpdates

NextView == \E op \in ReadOps : \E arg \in ReadArgs(op) : Read(1, op, arg)

SpecView == InitView /\ [][NextView]_vars

\* C18: every read handler returns a grid, a not-found result or a fetch-failure
\* result, whatever the persisted slots refer to.
C18_ReadsAlwaysStructured ==
    \A p \in Procs :
        response[p].op \in ReadOps =>
            response[p].kind \in {"grid", "not_found", "fetch_failed"}


(***************************************************************************)
(* SpecRegen: one POST /timetable/regenerate over a family of persisted    *)
(* slot sets, with slot requests that may fail.                            *)
(***************************************************************************)
RegenSlotFields ==
    [day : {Head(days)}, time : {Head(time_slots)}, classroom_id : {"r1"},
     subject_id : {"s1"}, faculty_id : {"f1"}, batch_id : {"b1"}]

\* the persisted sets a regeneration starts from: rows with ids, with or
\* without a row whose id is empty in front
RegenSlotSets ==
    UNION {{WithIds(fields) : fields \in [1..n -> RegenSlotFields]} : n \in 0..MaxSlots}
    \cup UNION {{<<h>> \o WithIds(fields) :
                    h \in HandWrittenSlots, fields \in [1..n -> RegenSlotFields]} :
                        n \in 0..(MaxSlots - 1)}

InitRegen ==
    /\ db_users = <<UserRow("f1", "faculty")>>
    /\ db_classrooms = <<ClassroomRow("r1", "lecture")>>
    /\ db_subjects = <<SubjectRow("s1", NameMath, 2, "CS"),
                       SubjectRow("s2", NamePhysics, 1, "CS")>>
    /\ db_faculty_subject_map = <<MappingRow("f1", "s1", 2)>>
    /\ db_batches = <<BatchRow("b1", "CS")>>
    /\ db_timetable_slots \in RegenSlotSets
    /\ FreshInstance
    /\ call = [p \in Procs |-> IdleCall]
    /\ response = [p \in Procs |-> NoResponse]
    /\ faults = 0
    /\ requests = MaxRequests - 1
    /\ updates = MaxUpdates

NextRegen ==
    \/ RegenerateStart(1)
    \/ GenFetch(1)
    \/ GenNextBatch(1)
    \/ SkipTask(1)
    \/ Attempt(1)
    \/ DropTask(1)
    \/ RegenValidate(1)
    \/ DeleteSlot(1)
    \/ SaveSlot(1)
    \/ RegenRespond(1)

SpecRegen == InitRegen /\ [][NextRegen]_vars

\* the slots delete_all_timetable_slots got from its read of the store
ExistingRead(r) == IF r.slots_read = "ok" THEN r.persisted_before ELSE <<>>

\* the store after the run holds what it held before, less the deletes that
\* succeeded, plus the writes that succeeded, and the counts returned are these
NoRollback(r) ==
    /\ r.saved_new_slots + r.write_failures = Len(r.slots)
    /\ Len(r.persisted_after)
          = Len(r.persisted_before) - r.deleted_old_slots + r.saved_new_slots

C20_ValidationOnlyReads ==
    [][\A p \in Procs :
          (response'[p] # response[p] /\ response'[p].op = "validation") =>
              /\ db_timetable_slots' = db_timetable_slots
              /\ call' = call
              /\ response'[p].kind = "report" =>
                    /\ response'[p].slots = db_timetable_slots
                    /\ response'[p].total_slots = Len(db_timetable_slots)
                    /\ response'[p].validation_report
                          = validate_generated_slots(response'[p].catalog,
                                                     db_timetable_slots)]_vars

\* a validation report returned while the persisted set is empty
C20_Witness ==
    \E p \in Procs :
        /\ response[p].op = "validation"
        /\ response[p].kind = "report"
        /\ db_timetable_slots = <<>>
        /\ response[p].slots = <<>>
        /\ response[p].total_slots = 0
        /\ response[p].validation_report
              = validate_generated_slots(response[p].catalog, <<>>)


(***************************************************************************)
(* Further properties of the generated slot sets (SpecGen).                *)
(***************************************************************************)
\* the number of slots of the list held by the faculty member for the subject
PairHours(slots, faculty_id, subject_id) ==
    Cardinality({i \in 1..Len(slots) :
                    slots[i].faculty_id = faculty_id /\ slots[i].subject_id = subject_id})

\* C21: in every slot list of the generator, at every point of the run and in
\* the list returned, the slots a faculty member holds for a subject, over all
\* batches, are at most the max_hours_per_week of every mapping of the pair.
C21_PairQuotaRespected ==
    \A slots \in GeneratedSlotLists :
        \A faculty_id \in Keys(faculty_subject_map) :
            \A k \in 1..Len(faculty_subject_map.val[faculty_id]) :
                LET m == faculty_subject_map.val[faculty_id][k] IN
                    PairHours(slots, faculty_id, m.subject_id) <= m.max_hours_per_week

\* a run in which a faculty member has reached the quota for the subject of the
\* task at hand and is free in a cell the batch is free in
C21_Witness ==
    /\ call[1].pc = "gen_task"
    /\ call[1].tasks # <<>>
    /\ \E faculty_id \in Range(call[1].faculty_options) :
          /\ PairHours(call[1].generated_slots, faculty_id, Head(call[1].tasks))
                = get_faculty_subject_max_hours(Self, faculty_id, Head(call[1].tasks))
          /\ \E di \in 1..Len(days), ti \in 1..Len(time_slots) :
                /\ _is_faculty_available_local(call[1].generated_slots, faculty_id,
                                               days[di], time_slots[ti])
                /\ _is_batch_available_local(call[1].generated_slots, call[1].batch_id,
                                             days[di], time_slots[ti])


(***************************************************************************)
(* Order of the steps of one regeneration (SpecRegen).                     *)
(***************************************************************************)
\* the phases of regenerate_timetable in the order of its statements
PhaseRank(pc) ==
    CASE pc = "idle"      -> 0
      [] pc = "gen_fetch" -> 1
      [] pc = "gen_batch" -> 2
      [] pc = "gen_task"  -> 2
      [] pc = "gen_done"  -> 3
      [] pc = "delete"    -> 4
      [] pc = "save"      -> 5

\* C22: in a regeneration the phases follow each other as generation,
\* validation of the generated list, deletes, writes; the store is untouched
\* before the validation, a row is removed only while no write has been
\* attempted, a row is added only when no slot waits for its delete, and the
\* report returned is the one computed on the generated list.
C22_RegenerationOrder ==
    [][/\ (call[1].pc # "idle" /\ call'[1].pc # "idle")
            => PhaseRank(call'[1].pc) >= PhaseRank(call[1].pc)
       /\ PhaseRank(call[1].pc) < 3 => PhaseRank(call'[1].pc) <= 3
       /\ (call[1].pc = "gen_done" /\ call'[1].pc # "gen_done")
            => /\ call'[1].validations
                    = validate_generated_slots(Self, call[1].generated_slots)
               /\ call'[1].to_save = call[1].generated_slots
       /\ db_timetable_slots' # db_timetable_slots
            => \/ /\ call[1].pc = "delete"
                  /\ Len(db_timetable_slots') < Len(db_timetable_slots)
                  /\ call[1].saved + call[1].write_failures = 0
                  /\ call[1].to_save = call[1].generated_slots
               \/ /\ call[1].pc = "save"
                  /\ call[1].existing = <<>>
                  /\ db_timetable_slots' = Append(db_timetable_slots, Head(call[1].to_save))
       /\ (response'[1] # response[1] /\ response'[1].op = "regenerate")
            => /\ call[1].pc = "save"
               /\ call[1].to_save = <<>>
               /\ response'[1].validation_summary
                    = validate_generated_slots(Self, call[1].generated_slots)]_vars

\* a regeneration that deleted a row and wrote a slot, and whose report differs
\* from the validator's result on the set persisted at the end
C22_Witness ==
    /\ response[1].op = "regenerate"
    /\ response[1].deleted_old_slots >= 1
    /\ response[1].saved_new_slots >= 1
    /\ response[1].validation_summary
          # validate_generated_slots(Self, response[1].persisted_after)


(***************************************************************************)
(* SpecRace: two POST /timetable/regenerate served by two threads of the   *)
(* server against the one store, every request to the store succeeding.    *)
(***************************************************************************)
InitRace ==
    /\ db_users = <<UserRow("f1", "faculty")>>
    /\ db_classrooms = <<ClassroomRow("r1", "lecture")>>
    /\ db_subjects = <<SubjectRow("s1", NameMath, 1, "CS"),
                       SubjectRow("s2", NamePhysics, 1, "CS")>>
    /\ db_faculty_subject_map = <<MappingRow("f1", "s1", 2)>>
    /\ db_batches = <<BatchRow("b1", "CS"), BatchRow("b2", "CS")>>
    /\ db_timetable_slots = <<>>
    /\ FreshInstance
    /\ call = [p \in Procs |-> IdleCall]
    /\ response = [p \in Procs |-> NoResponse]
    /\ faults = MaxFaults
    /\ requests = MaxRequests - 2
    /\ updates = MaxUpdates

NextRace ==
    \E p \in Procs :
        \/ response[p].op = "none" /\ RegenerateStart(p)
        \/ GenFetch(p)
        \/ GenNextBatch(p)
        \/ SkipTask(p)
        \/ Attempt(p)
        \/ DropTask(p)
        \/ RegenValidate(p)
        \/ DeleteSlot(p)
        \/ SaveSlot(p)
        \/ RegenRespond(p)

SpecRace == InitRace /\ [][NextRace]_vars

\* the lists the regenerations hold or have returned
RunLists ==
    {call[p].generated_slots : p \in Procs}
        \cup {response[p].slots : p \in {q \in Procs : response[q].op = "regenerate"}}

\* C23: with two regenerations running against the one store, the list of each
\* run has no two slots sharing a cell with the classroom, the faculty member or
\* the batch, every persisted slot is a slot of one of the runs, and no two
\* persisted slots have the same id; the persisted set itself is not bound to
\* be the list of one run.
C23_EachRunSoundOnItsOwn ==
    /\ \A slots \in RunLists : NoDoubleBooking(slots)
    /\ \A i, j \in 1..Len(db_timetable_slots) :
          db_timetable_slots[i].id = db_timetable_slots[j].id => i = j
    /\ \A i \in 1..Len(db_timetable_slots) :
          \E slots \in RunLists : db_timetable_slots[i] \in Range(slots)

\* both regenerations have answered, and the persisted set holds a slot of each
\* that the other did not generate, two of its slots sharing a cell and the
\* classroom, the faculty member or the batch
C23_Witness ==
    /\ \A p \in Procs : response[p].op = "regenerate"
    /\ \A p \in Procs : call[p].pc = "idle"
    /\ ~ NoDoubleBooking(db_timetable_slots)
    /\ \E i, j \in 1..Len(db_timetable_slots) :
          /\ db_timetable_slots[i] \in Range(response[1].slots)
          /\ db_timetable_slots[i] \notin Range(response[2].slots)
          /\ db_timetable_slots[j] \in Range(response[2].slots)
          /\ db_timetable_slots[j] \notin Range(response[1].slots)


(***************************************************************************)
(* SpecMix: a POST /timetable/regenerate and a GET /timetable/batch/b1     *)
(* served by two threads of the server against the one store, every        *)
(* request to the store succeeding.                                        *)
(***************************************************************************)
InitMix ==
    /\ db_users = <<UserRow("f1", "faculty")>>
    /\ db_classrooms = <<ClassroomRow("r1", "lecture")>>
    /\ db_subjects = <<SubjectRow("s1", NameMath, 2, "CS"),
                       SubjectRow("s2", NamePhysics, 1, "CS")>>
    /\ db_faculty_subject_map = <<MappingRow("f1", "s1", 2)>>
    /\ db_batches = <<BatchRow("b1", "CS")>>
    /\ db_timetable_slots \in RegenSlotSets
    /\ FreshInstance
    /\ call = [p \in Procs |-> IdleCall]
    /\ response = [p \in Procs |-> NoResponse]
    /\ faults = MaxFaults
    /\ requests = MaxRequests - 2
    /\ updates = MaxUpdates

NextMix ==
    \/ response[1].op = "none" /\ RegenerateStart(1)
    \/ response[2].op = "none" /\ Read(2, "batch", "b1")
    \/ \E p \in Procs :
          \/ GenFetch(p)
          \/ GenNextBatch(p)
          \/ SkipTask(p)
          \/ Attempt(p)
          \/ DropTask(p)
    \/ RegenValidate(1)
    \/ DeleteSlot(1)
    \/ SaveSlot(1)
    \/ RegenRespond(1)
    \/ ReadFinish(2)

SpecMix == InitMix /\ [][NextMix]_vars

\* C24: a read served next to a regeneration answers from the slots the store
\* held at the instant of its read when there were any, and from a list it
\* generates itself only when the store held none; what it saw in the store is
\* made of slots persisted before the regeneration and of slots the
\* regeneration generated.
C24_ReadSeesStoreOfTheInstant ==
    /\ \A p \in Procs :
          response[p].op \in ReadOps =>
              /\ response[p].source = "persisted"
                    => /\ response[p].persisted_at_read # <<>>
                       /\ response[p].slots = response[p].persisted_at_read
              /\ response[p].source = "generated"
                    => /\ response[p].persisted_at_read = <<>>
                       /\ NoDoubleBooking(response[p].slots)
    /\ (response[1].op = "regenerate" /\ response[2].op \in ReadOps)
          => \A i \in 1..Len(response[2].persisted_at_read) :
                response[2].persisted_at_read[i]
                    \in Range(response[1].persisted_before) \cup Range(response[1].slots)

\* the store held slots before the regeneration and holds slots after it, the
\* read found it empty in between, and the grid the read returned is not the
\* grid of the schedule the regeneration persisted
C24_Witness ==
    /\ response[1].op = "regenerate"
    /\ response[1].persisted_before # <<>>
    /\ response[1].persisted_after # <<>>
    /\ response[2].op = "batch"
    /\ response[2].kind = "grid"
    /\ response[2].source = "generated"
    /\ response[2].persisted_at_read = <<>>
    /\ response[2].timetable
          # Timetable(Self, "batch", "b1", response[1].persisted_after)


(***************************************************************************)
(* Further properties of the validator's reports (SpecVal).                *)
(***************************************************************************)
\* the faculty holding a mapping for the subject in the catalog
QualifiedFor(cat, subject_id) ==
    {f \in Keys(cat.faculty_subject_map) :
        \E k \in 1..Len(cat.faculty_subject_map.val[f]) :
            cat.faculty_subject_map.val[f][k].subject_id = subject_id}

\* what the faculty member may still take of the subject: the quota of the
\* mapping less the slots held for the subject, and 0 when these are more
SlackOf(cat, slots, f, subject_id) ==
    LET k == CHOOSE j \in 1..Len(cat.faculty_subject_map.val[f]) :
                 cat.faculty_subject_map.val[f][j].subject_id = subject_id
        left == cat.faculty_subject_map.val[f][k].max_hours_per_week
                  - PairHours(slots, f, subject_id)
    IN  IF left > 0 THEN left ELSE 0

RECURSIVE SlackOver(_, _, _, _)
SlackOver(cat, slots, fs, subject_id) ==
    IF fs = {} THEN 0
    ELSE LET f == CHOOSE x \in fs : TRUE
         IN  SlackOf(cat, slots, f, subject_id)
               + SlackOver(cat, slots, fs \ {f}, subject_id)

\* the subjects of the batch's curriculum with fewer slots than weekly_hours
DeficitSubjects(cat, slots, b) ==
    {s \in Keys(cat.subjects) :
        /\ cat.subjects.val[s].department = cat.batches.val[b].department
        /\ Len(SlotsFor(slots, b, s)) < cat.subjects.val[s].weekly_hours}

\* the deficits the remaining capacity of the qualified faculty does not cover
ShortSubjects(cat, slots, b) ==
    {s \in DeficitSubjects(cat, slots, b) :
        SlackOver(cat, slots, QualifiedFor(cat, s), s)
            < cat.subjects.val[s].weekly_hours - Len(SlotsFor(slots, b, s))}

CountKind(list, kind) == Cardinality({i \in 1..Len(list) : list[i].kind = kind})

\* C25: in every report, the suggestions of a batch hold one "add faculty or
\* increase max_hours_per_week" for every deficit its qualified faculty's
\* remaining capacity is strictly less than, one "reassign to faculty with
\* capacity" for every other deficit, and one "extend working hours" for every
\* deficit.
C25_DeficitSuggestions ==
    \A p \in Procs :
        response[p].kind = "report" =>
            \A b \in DOMAIN response[p].validation_report.batches :
                LET cat   == response[p].catalog
                    slots == response[p].slots
                    sugg  == response[p].validation_report.batches[b].suggestions
                    all   == DeficitSubjects(cat, slots, b)
                    short == ShortSubjects(cat, slots, b)
                IN  /\ CountKind(sugg, "add_faculty_or_increase_max_hours")
                          = Cardinality(short)
                    /\ CountKind(sugg, "reassign_to_faculty_with_capacity")
                          = Cardinality(all \ short)
                    /\ CountKind(sugg, "extend_working_hours") = Cardinality(all)

\* a report on a batch with one deficit the remaining capacity covers and one
\* it does not, a qualified faculty member holding more slots than the quota
C25_Witness ==
    \E p \in Procs :
        /\ response[p].kind = "report"
        /\ \E b \in DOMAIN response[p].validation_report.batches :
              LET cat   == response[p].catalog
                  slots == response[p].slots
                  sugg  == response[p].validation_report.batches[b].suggestions
              IN  /\ HasKind(sugg, "add_faculty_or_increase_max_hours")
                  /\ HasKind(sugg, "reassign_to_faculty_with_capacity")
                  /\ \E s \in DeficitSubjects(cat, slots, b) :
                        \E f \in QualifiedFor(cat, s) :
                            PairHours(slots, f, s)
                                > get_faculty_subject_max_hours(cat, f, s)


\* the entries of a report, of the three kinds together
EntriesOf(report) ==
    {report.batches[b] : b \in DOMAIN report.batches}
        \cup {report.faculty[f] : f \in DOMAIN report.faculty}
        \cup {report.classrooms[c] : c \in DOMAIN report.classrooms}

\* C26: in every report the status of an entry is OK when its error list is
\* empty and ERROR when it is not, and the report has an entry for every batch,
\* for every user of role faculty and for every classroom of the catalog, and
\* for nothing else.
C26_StatusFollowsErrors ==
    \A p \in Procs :
        response[p].kind = "report" =>
            LET cat    == response[p].catalog
                report == response[p].validation_report
            IN  /\ \A e \in EntriesOf(report) :
                      /\ e.status \in {"OK", "ERROR"}
                      /\ e.status = "OK" <=> e.errors = <<>>
                /\ DOMAIN report.batches = Keys(cat.batches)
                /\ DOMAIN report.faculty
                      = {u \in Keys(cat.users) : cat.users.val[u].role = "faculty"}
                /\ DOMAIN report.classrooms = Keys(cat.classrooms)

\* a report with a batch in error, a faculty member in error and one that is
\* not, over a catalog whose store holds a user who is no faculty
C26_Witness ==
    \E p \in Procs :
        /\ response[p].kind = "report"
        /\ \E b \in DOMAIN response[p].validation_report.batches :
              response[p].validation_report.batches[b].errors # <<>>
        /\ \E f, g \in DOMAIN response[p].validation_report.faculty :
              /\ response[p].validation_report.faculty[f].errors # <<>>
              /\ response[p].validation_report.faculty[g].errors = <<>>
        /\ \E c \in DOMAIN response[p].validation_report.classrooms :
              response[p].validation_report.classrooms[c].errors = <<>>
        /\ \E i \in 1..Len(db_users) : db_users[i].role # "faculty"


\* C27: in every slot list of the generator, at every point of the run and in
\* the list returned, the slots of a batch for a subject are at most the
\* subject's weekly_hours, and the validator's report on the list holds no
\* surplus: no subject counted above its required hours and no suggestion to
\* reduce an allocation.
C27_NeverOverScheduled ==
    \A slots \in GeneratedSlotLists :
        /\ \A b \in Keys(batches), s \in Keys(subjects) :
              Len(SlotsFor(slots, b, s)) <= subjects.val[s].weekly_hours
        /\ \A b \in Keys(batches) :
              LET entry == validate_generated_slots(Self, slots).batches[b] IN
                  /\ ~ HasKind(entry.suggestions, "reduce_allocation")
                  /\ \A i \in 1..Len(entry.errors) :
                        entry.errors[i].kind = "subject_hours"
                            => entry.errors[i].scheduled < entry.errors[i].required

\* a returned list that holds, for a batch, every one of the two weekly hours
\* of a subject
C27_Witness ==
    \E p \in Procs :
        /\ response[p].kind = "slots"
        /\ \E b \in Keys(batches), s \in Keys(subjects) :
              /\ subjects.val[s].weekly_hours = 2
              /\ Len(SlotsFor(response[p].slots, b, s)) = 2


(***************************************************************************)
(* SpecIds: one POST /timetable/regenerate against a store that holds no   *)
(* slot or one, every request to the store succeeding, over a catalog      *)
(* whose ids are written with underscores, as the ids of users are.        *)
(***************************************************************************)
InitIds ==
    /\ db_users = <<UserRow("f1", "faculty"), UserRow("f2", "faculty")>>
    /\ db_classrooms = <<ClassroomRow("r1", "lecture"), ClassroomRow("r2", "lecture")>>
    /\ db_subjects = <<SubjectRow("s_t", NameMath, 1, "CS"),
                       SubjectRow("t", NamePhysics, 1, "CS"),
                       SubjectRow("u", NameSyllabus, 1, "CS")>>
    /\ db_faculty_subject_map = <<MappingRow("f1", "s_t", 2), MappingRow("f2", "t", 2)>>
    /\ db_batches = <<BatchRow("b", "CS"), BatchRow("b_s", "CS")>>
    /\ db_timetable_slots \in {slots \in RegenSlotSets : Len(slots) <= 1}
    /\ (FreshInstance \/ WarmInstance)
    /\ call = [p \in Procs |-> IdleCall]
    /\ response = [p \in Procs |-> NoResponse]
    /\ faults = MaxFaults
    /\ requests = MaxRequests - 1
    /\ updates = MaxUpdates

NextIds ==
    \/ RegenerateStart(1)
    \/ GenFetch(1)
    \/ GenNextBatch(1)
    \/ SkipTask(1)
    \/ Attempt(1)
    \/ DropTask(1)
    \/ RegenValidate(1)
    \/ DeleteSlot(1)
    \/ SaveSlot(1)
    \/ RegenRespond(1)

SpecIds == InitIds /\ [][NextIds]_vars

\* C28: the ids of the slots of a generated list are pairwise distinct, and a
\* regeneration that found the store empty and met no failing request has
\* written every slot of its list.
C28_GeneratedIdsDistinct ==
    /\ \A slots \in RunLists :
          \A i, j \in 1..Len(slots) : slots[i].id = slots[j].id => i = j
    /\ \A p \in Procs :
          (response[p].op = "regenerate" /\ response[p].persisted_before = <<>>)
              => /\ response[p].write_failures = 0
                 /\ response[p].saved_new_slots = Len(response[p].slots)


\* the slots of the list that name the value in the field
SlotsOfBatch(slots, b) == Cardinality({i \in 1..Len(slots) : slots[i].batch_id = b})
SlotsOfFaculty(slots, f) == Cardinality({i \in 1..Len(slots) : slots[i].faculty_id = f})
SlotsOfClassroom(slots, c) == Cardinality({i \in 1..Len(slots) : slots[i].classroom_id = c})

\* C29: every slot of every list of the generator names a batch, a subject and
\* a classroom that are keys of the loaded catalog, the subject being of the
\* batch's department, and a day and a time of the fixed calendar; no batch,
\* faculty member or classroom holds more slots than the calendar has cells.
C29_SlotsWithinCatalogAndCalendar ==
    \A slots \in GeneratedSlotLists :
        /\ \A i \in 1..Len(slots) :
              /\ slots[i].batch_id \in Keys(batches)
              /\ slots[i].subject_id \in Keys(subjects)
              /\ slots[i].classroom_id \in Keys(classrooms)
              /\ subjects.val[slots[i].subject_id].department
                    = batches.val[slots[i].batch_id].department
              /\ slots[i].day \in Range(days)
              /\ slots[i].time \in Range(time_slots)
        /\ \A i \in 1..Len(slots) :
              /\ SlotsOfBatch(slots, slots[i].batch_id) <= Len(days) * Len(time_slots)
              /\ SlotsOfFaculty(slots, slots[i].faculty_id) <= Len(days) * Len(time_slots)
              /\ SlotsOfClassroom(slots, slots[i].classroom_id)
                    <= Len(days) * Len(time_slots)

\* a returned list in which a batch fills every cell of the calendar, over a
\* catalog with a batch of a department that has no subject
C29_Witness ==
    \E p \in Procs :
        /\ response[p].kind = "slots"
        /\ \E b \in Keys(batches) :
              SlotsOfBatch(response[p].slots, b) = Len(days) * Len(time_slots)
        /\ \E b \in Keys(batches) :
              /\ get_subjects_for_batch(Self, b) = <<>>
              /\ SlotsOfBatch(response[p].slots, b) = 0


(***************************************************************************)
(* SpecQuota: the validation-only endpoint over catalogs of one subject    *)
(* and persisted slot sets written by hand.                                *)
(***************************************************************************)
QuotaSubjectsTables == {<<SubjectRow("s1", NameMath, h, "CS")>> : h \in {1, 2}}

InitQuota ==
    /\ db_users \in UsersTables
    /\ db_classrooms \in ValClassroomsTables
    /\ db_subjects \in QuotaSubjectsTables
    /\ db_faculty_subject_map \in MappingsTables
    /\ db_batches \in BatchesTables
    /\ db_timetable_slots \in ValSlotSets
    /\ (FreshInstance \/ WarmInstance)
    /\ call = [p \in Procs |-> IdleCall]
    /\ response = [p \in Procs |-> NoResponse]
    /\ faults = MaxFaults
    /\ requests = MaxRequests - 1
    /\ updates = MaxUpdates

NextQuota == GetTimetableValidation(1)

SpecQuota == InitQuota /\ [][NextQuota]_vars

\* every (batch, subject) of a curriculum has its required hours, and no
\* faculty member and no classroom holds more slots than its ceiling
CountsInOrder(cat, slots) ==
    /\ \A b \in Keys(cat.batches), s \in Keys(cat.subjects) :
          cat.subjects.val[s].department = cat.batches.val[b].department
              => Len(SlotsFor(slots, b, s)) = cat.subjects.val[s].weekly_hours
    /\ \A f \in Keys(cat.users) : SlotsOfFaculty(slots, f) <= max_faculty_hours
    /\ \A c \in Keys(cat.classrooms) : SlotsOfClassroom(slots, c) <= max_weekly_slots

\* no faculty member holds more slots of a subject than a mapping allows, and
\* no curriculum asks for more hours than the calendar has cells
QuotasInOrder(cat, slots) ==
    /\ \A f \in Keys(cat.faculty_subject_map) :
          \A k \in 1..Len(cat.faculty_subject_map.val[f]) :
              PairHours(slots, f, cat.faculty_subject_map.val[f][k].subject_id)
                  <= cat.faculty_subject_map.val[f][k].max_hours_per_week
    /\ \A b \in Keys(cat.batches) :
          SumSeq([i \in 1..Len(get_subjects_for_batch(cat, b)) |->
                    cat.subjects.val[get_subjects_for_batch(cat, b)[i]].weekly_hours])
              <= max_weekly_slots

AllOK(report) == \A e \in EntriesOf(report) : e.status = "OK"

\* C30 as stated: a report on a persisted set with two slots sharing a cell
\* and the classroom, the faculty member or the batch, whose (batch, subject)
\* counts are the required hours and whose faculty and classroom totals are
\* within their ceilings, has status OK in every entry.
C30_ClashesPassOnCounts ==
    \A p \in Procs :
        (/\ response[p].kind = "report"
         /\ ~ NoDoubleBooking(response[p].slots)
         /\ CountsInOrder(response[p].catalog, response[p].slots))
            => AllOK(response[p].validation_report)

\* C30 as amended: the same, for the sets in which moreover no (faculty,
\* subject) count is above the mapping's max_hours_per_week and no batch's
\* required total is above the number of weekly cells.
C30_ClashesPassOnCountsAndQuotas ==
    \A p \in Procs :
        (/\ response[p].kind = "report"
         /\ ~ NoDoubleBooking(response[p].slots)
         /\ CountsInOrder(response[p].catalog, response[p].slots)
         /\ QuotasInOrder(response[p].catalog, response[p].slots))
            => AllOK(response[p].validation_report)

\* a report with every entry OK on a persisted set in which two batches sit in
\* one cell with the same faculty member in the same classroom
C30_Witness ==
    \E p \in Procs :
        /\ response[p].kind = "report"
        /\ Len(response[p].slots) = 2
        /\ SameCell(response[p].slots[1], response[p].slots[2])
        /\ response[p].slots[1].faculty_id = response[p].slots[2].faculty_id
        /\ response[p].slots[1].classroom_id = response[p].slots[2].classroom_id
        /\ response[p].slots[1].batch_id # response[p].slots[2].batch_id
        /\ CountsInOrder(response[p].catalog, response[p].slots)
        /\ QuotasInOrder(response[p].catalog, response[p].slots)
        /\ AllOK(response[p].validation_report)

====
